---- MODULE Spec2Model ----
(***************************************************************************)
(* Model of Facs2.0/extractor_pdfs_v2.0.py (REMAA concept extractor).      *)
(*                                                                         *)
(* Text is a sequence of one-character strings, so that strip(), the key   *)
(* regular expressions, upper() and the numeric cleaner are computed on    *)
(* characters as the Python code computes them.  Python's None is the      *)
(* value None below.  Row and column indices are 0-based as in the source: *)
(* Fila(t, i) is t[i] and Col(f, c) is f[c] of the Python code.            *)
(***************************************************************************)
EXTENDS Integers, Sequences, FiniteSets, TLC

\* ------------------------------------------------------------------------
\* Characters and Python string primitives
\* ------------------------------------------------------------------------
None == <<"None">>

Mayusculas == {"A","B","C","D","E","F","G","H","I","J","K","L","M",
               "N","O","P","Q","R","S","T","U","V","W","X","Y","Z"}
Minusculas == {"a","b","c","d","e","f","g","h","i","j","k","l","m",
               "n","o","p","q","r","s","t","u","v","w","x","y","z"}
Digitos == {"0","1","2","3","4","5","6","7","8","9"}
Blancos == {" ", "\n", "\t"}
SeqMayusculas == <<"A","B","C","D","E","F","G","H","I","J","K","L","M",
                   "N","O","P","Q","R","S","T","U","V","W","X","Y","Z">>
SeqMinusculas == <<"a","b","c","d","e","f","g","h","i","j","k","l","m",
                   "n","o","p","q","r","s","t","u","v","w","x","y","z">>
SeqDigitos == <<"0","1","2","3","4","5","6","7","8","9">>

\* bool(x) of an Optional[str]
Truthy(x) == x # None /\ x # <<>>

RECURSIVE lstrip(_)
lstrip(s) == IF s = <<>> THEN s
             ELSE IF Head(s) \in Blancos THEN lstrip(Tail(s)) ELSE s

RECURSIVE rstrip(_)
rstrip(s) == IF s = <<>> THEN s
             ELSE IF s[Len(s)] \in Blancos THEN rstrip(SubSeq(s, 1, Len(s) - 1)) ELSE s

strip(s) == rstrip(lstrip(s))

upper_char(c) == IF c \in Minusculas
                 THEN SeqMayusculas[CHOOSE k \in 1..26 : SeqMinusculas[k] = c]
                 ELSE c

upper(s) == [k \in 1..Len(s) |-> upper_char(s[k])]

\* palabra in texto
Contiene(texto, palabra) ==
    \E p \in 1..(Len(texto) - Len(palabra) + 1) :
        SubSeq(texto, p, p + Len(palabra) - 1) = palabra

\* texto.replace(c, '')
quitar(s, c) == SelectSeq(s, LAMBDA x : x # c)

\* sep.join(partes)
RECURSIVE join(_, _)
join(sep, partes) ==
    IF partes = <<>> THEN <<>>
    ELSE IF Len(partes) = 1 THEN partes[1]
    ELSE partes[1] \o sep \o join(sep, Tail(partes))

Fila(t, i) == t[i + 1]
Col(f, c) == f[c + 1]

\* ------------------------------------------------------------------------
\* ValidadorPlantillaREMAA
\* ------------------------------------------------------------------------
PALABRAS_CLAVE_REMAA ==
    << <<"C","L","A","V","E">>,
       <<"C","O","N","C","E","P","T","O">>,
       <<"U","N","I","D">>,
       <<"P",".","U",".">>,
       <<"I","M","P","O","R","T","E">> >>

\* faulty variant: one template word found is enough
MalValidar(texto_completo) ==
    LET faltantes == SelectSeq(PALABRAS_CLAVE_REMAA,
                               LAMBDA p : ~Contiene(upper(texto_completo), p))
    IN [es_valido |-> Len(faltantes) < Len(PALABRAS_CLAVE_REMAA),
        txt |-> IF Len(faltantes) < Len(PALABRAS_CLAVE_REMAA)
                THEN "Plantilla REMAA valida"
                ELSE "PLANTILLA_NO_VALIDA - Faltan",
        faltan |-> IF Len(faltantes) < Len(PALABRAS_CLAVE_REMAA)
                   THEN <<>> ELSE faltantes]

\* faulty variant: the words are searched in the text as written
MalValidarSinMayusculas(texto_completo) ==
    LET palabras_faltantes == SelectSeq(PALABRAS_CLAVE_REMAA,
                                        LAMBDA p : ~Contiene(texto_completo, p))
    IN IF palabras_faltantes = <<>>
       THEN [es_valido |-> TRUE, txt |-> "Plantilla REMAA valida", faltan |-> <<>>]
       ELSE [es_valido |-> FALSE, txt |-> "PLANTILLA_NO_VALIDA - Faltan",
             faltan |-> palabras_faltantes]

\* returns (es_valido, mensaje); the message is its fixed text plus the
\* joined list of missing words
validar(texto_completo) ==
    LET texto_upper == upper(texto_completo)
        palabras_faltantes == SelectSeq(PALABRAS_CLAVE_REMAA,
                                        LAMBDA p : ~Contiene(texto_upper, p))
        palabras_encontradas == SelectSeq(PALABRAS_CLAVE_REMAA,
                                          LAMBDA p : Contiene(texto_upper, p))
    IN IF Len(palabras_encontradas) = Len(PALABRAS_CLAVE_REMAA)
       THEN [es_valido |-> TRUE, txt |-> "Plantilla REMAA valida", faltan |-> <<>>]
       ELSE [es_valido |-> FALSE, txt |-> "PLANTILLA_NO_VALIDA - Faltan",
             faltan |-> palabras_faltantes]

\* ------------------------------------------------------------------------
\* ValidadorClave
\* ------------------------------------------------------------------------
\* PATRON_CLAVE.match(t), ^[A-Z]{2,4}-\d{3}$ ; in Python $ also matches just
\* before a final newline
PATRON_CLAVE(t) ==
    \E n \in 2..4 :
        /\ Len(t) = n + 4 \/ (Len(t) = n + 5 /\ t[n + 5] = "\n")
        /\ \A k \in 1..n : t[k] \in Mayusculas
        /\ t[n + 1] = "-"
        /\ \A k \in (n + 2)..(n + 4) : t[k] \in Digitos

\* a value that is neither None nor a str, and is truthy
NoTexto == <<"object">>

\* isinstance(x, str)
isinstance_str(x) == x # None /\ x # NoTexto

\* faulty variant: the text is matched without being trimmed
MalEsClaveValida(texto) ==
    IF ~Truthy(texto) \/ ~isinstance_str(texto) THEN FALSE
    ELSE PATRON_CLAVE(texto)

es_clave_valida(texto) ==
    IF ~Truthy(texto) \/ ~isinstance_str(texto) THEN FALSE
    ELSE PATRON_CLAVE(strip(texto))

EsPalabra(c) == c \in Mayusculas \/ c \in Minusculas \/ c \in Digitos \/ c = "_"

\* number of letters of the match of \b([A-Z]{2,4}-\d{3})\b that starts at
\* position p (1-based), 0 when there is none
CoincideEn(t, p) ==
    LET ns == {n \in 2..4 :
                 /\ p + n + 3 <= Len(t)
                 /\ t[p + n] = "-"
                 /\ \A k \in p..(p + n - 1) : t[k] \in Mayusculas
                 /\ \A k \in (p + n + 1)..(p + n + 3) : t[k] \in Digitos
                 /\ p = 1 \/ ~EsPalabra(t[p - 1])
                 /\ p + n + 3 = Len(t) \/ ~EsPalabra(t[p + n + 4])}
    IN IF ns = {} THEN 0 ELSE CHOOSE n \in ns : TRUE

RECURSIVE findall(_, _)
findall(t, p) ==
    IF p > Len(t) THEN <<>>
    ELSE LET n == CoincideEn(t, p)
         IN IF n > 0 THEN <<SubSeq(t, p, p + n + 3)>> \o findall(t, p + n + 4)
            ELSE findall(t, p + 1)

\* faulty variant: the pattern is searched in the upper-cased text
MalExtraerClaves(texto) ==
    IF ~Truthy(texto) THEN <<>> ELSE findall(upper(texto), 1)

extraer_claves(texto) ==
    IF ~Truthy(texto) THEN <<>> ELSE findall(texto, 1)

\* ------------------------------------------------------------------------
\* Numbers.  A float read from a cell is the exact decimal [m, e] = m / 10^e,
\* kept normalised (no trailing zero in the fraction), so that 50.0 = 50.00.
\* ------------------------------------------------------------------------
RECURSIVE Pow10(_)
Pow10(n) == IF n <= 0 THEN 1 ELSE 10 * Pow10(n - 1)

Abs(x) == IF x < 0 THEN -x ELSE x

ValorDigito(c) == (CHOOSE k \in 1..10 : SeqDigitos[k] = c) - 1

RECURSIVE ValorDigitos(_)
ValorDigitos(ds) ==
    IF ds = <<>> THEN 0
    ELSE 10 * ValorDigitos(SubSeq(ds, 1, Len(ds) - 1)) + ValorDigito(ds[Len(ds)])

RECURSIVE Normal(_, _)
Normal(m, e) == IF e > 0 /\ m % 10 = 0 THEN Normal(m \div 10, e - 1)
                ELSE [m |-> m, e |-> e]

Cero == [m |-> 0, e |-> 0]
SinNumero == [ok |-> FALSE, m |-> 0, e |-> 0]

\* index of the last character of the run of digits that starts at p
\* (p - 1 when t[p] is not a digit)
RECURSIVE FinDigitos(_, _)
FinDigitos(t, p) == IF p <= Len(t) /\ t[p] \in Digitos THEN FinDigitos(t, p + 1)
                    ELSE p - 1

\* float() of a matched text: sign, integer digits, fraction digits
Leido(n) == [ok |-> TRUE, m |-> n.m, e |-> n.e]

NumeroDe(neg, entero, frac) ==
    Leido(Normal((IF neg THEN -1 ELSE 1) * ValorDigitos(entero \o frac), Len(frac)))

\* \.?\d* after the integer digits t[d0..d1]
ConFraccion(t, neg, d0, d1) ==
    IF d1 < Len(t) /\ t[d1 + 1] = "."
    THEN NumeroDe(neg, SubSeq(t, d0, d1), SubSeq(t, d1 + 2, FinDigitos(t, d1 + 2)))
    ELSE NumeroDe(neg, SubSeq(t, d0, d1), <<>>)

\* \d+ from d0
DesdeDigito(t, neg, d0) == ConFraccion(t, neg, d0, FinDigitos(t, d0))

\* -? at p
DesdeInicio(t, p) ==
    IF t[p] = "-" THEN DesdeDigito(t, TRUE, p + 1) ELSE DesdeDigito(t, FALSE, p)

\* -?\d+ can match at p
EsInicioNumero(t, p) ==
    \/ t[p] \in Digitos
    \/ t[p] = "-" /\ p < Len(t) /\ t[p + 1] \in Digitos

\* re.search(r'-?\d+\.?\d*', t): the leftmost match, then float(match.group())
BuscarNumero(t) ==
    IF \E p \in 1..Len(t) : EsInicioNumero(t, p)
    THEN DesdeInicio(t, CHOOSE p \in 1..Len(t) :
                           EsInicioNumero(t, p) /\ \A q \in 1..(p - 1) : ~EsInicioNumero(t, q))
    ELSE SinNumero

limpiar_valor_numerico(texto) ==
    IF ~Truthy(texto) THEN SinNumero
    ELSE BuscarNumero(quitar(quitar(quitar(strip(texto), "$"), ","), " "))

\* `valor or 0` of procesar_tabla_pdf: None and 0.0 both give 0
OCero(x) == IF x.ok /\ x.m # 0 THEN [m |-> x.m, e |-> x.e] ELSE Cero

\* ------------------------------------------------------------------------
\* Python's float: IEEE 754 binary64, round to nearest, ties to even.
\* A natural number of any size is the sequence of its digits in base
\* 2^BITS, least significant first, without leading zeros.  A non-negative
\* double is [m, x] for m * 2^x with m of exactly MANTISA bits; 0.0 is
\* CeroDoble.  The values of the model stay far from overflow, underflow
\* and subnormals.
\* ------------------------------------------------------------------------
BITS == 14
BASE == 2^BITS
MANTISA == 53

\* the digits of the number whose digits are s (each below 2^30), plus c
RECURSIVE Acarreo(_, _)
Acarreo(s, c) ==
    IF s = <<>> THEN (IF c = 0 THEN <<>> ELSE <<c % BASE>> \o Acarreo(<<>>, c \div BASE))
    ELSE <<(Head(s) + c) % BASE>> \o Acarreo(Tail(s), (Head(s) + c) \div BASE)

RECURSIVE Limpio(_)
Limpio(n) == IF n # <<>> /\ n[Len(n)] = 0 THEN Limpio(SubSeq(n, 1, Len(n) - 1)) ELSE n

DeEntero(k) == Acarreo(<<>>, k)

RECURSIVE AEntero(_)
AEntero(n) == IF n = <<>> THEN 0 ELSE Head(n) + BASE * AEntero(Tail(n))

\* sum of a[i] * b[k + 1 - i] for i in desde..hasta
RECURSIVE SumaProductos(_, _, _, _, _)
SumaProductos(a, b, k, desde, hasta) ==
    IF desde > hasta THEN 0
    ELSE a[desde] * b[k + 1 - desde] + SumaProductos(a, b, k, desde + 1, hasta)

Maximo(x, y) == IF x > y THEN x ELSE y
Minimo(x, y) == IF x < y THEN x ELSE y

\* a * b, for factors of at most 7 digits
Producto(a, b) ==
    IF a = <<>> \/ b = <<>> THEN <<>>
    ELSE Limpio(Acarreo([k \in 1..(Len(a) + Len(b) - 1) |->
                           SumaProductos(a, b, k, Maximo(1, k + 1 - Len(b)),
                                         Minimo(Len(a), k))], 0))

\* number of bits of n
LargoBits(n) ==
    IF n = <<>> THEN 0
    ELSE (Len(n) - 1) * BITS
         + (CHOOSE k \in 1..BITS : 2^(k - 1) <= n[Len(n)] /\ n[Len(n)] < 2^k)

\* n * 2^k
Izquierda(n, k) ==
    IF n = <<>> THEN <<>>
    ELSE [i \in 1..(k \div BITS) |-> 0]
         \o Acarreo([i \in 1..Len(n) |-> n[i] * 2^(k % BITS)], 0)

\* floor(n / 2^k)
Derecha(n, k) ==
    IF (k \div BITS) >= Len(n) THEN <<>>
    ELSE Limpio([i \in 1..(Len(n) - (k \div BITS)) |->
                   n[i + (k \div BITS)] \div 2^(k % BITS)
                   + (IF i + (k \div BITS) < Len(n)
                      THEN (n[i + (k \div BITS) + 1] % 2^(k % BITS)) * 2^(BITS - (k % BITS))
                      ELSE 0)])

\* bit j of n, bit 0 the least significant
BitEn(n, j) ==
    IF (j \div BITS) >= Len(n) THEN 0 ELSE (n[(j \div BITS) + 1] \div 2^(j % BITS)) % 2

\* some bit of n below bit j is set
HayBajos(n, j) ==
    \/ \E i \in 1..Minimo(Len(n), (j \div BITS)) : n[i] # 0
    \/ (j \div BITS) < Len(n) /\ n[(j \div BITS) + 1] % 2^(j % BITS) # 0

\* a - b for a >= b, p the borrow
RECURSIVE Prestamo(_, _, _)
Prestamo(a, b, p) ==
    IF a = <<>> THEN <<>>
    ELSE IF b = <<>>
         THEN <<(Head(a) - p) % BASE>> \o Prestamo(Tail(a), <<>>, IF Head(a) - p < 0 THEN 1 ELSE 0)
         ELSE <<(Head(a) - Head(b) - p) % BASE>>
              \o Prestamo(Tail(a), Tail(b), IF Head(a) - Head(b) - p < 0 THEN 1 ELSE 0)

Menos(a, b) == Limpio(Prestamo(a, b, 0))

\* a < b
Menor(a, b) ==
    \/ Len(a) < Len(b)
    \/ /\ Len(a) = Len(b)
       /\ \E k \in 1..Len(a) : /\ a[k] < b[k]
                               /\ \A j \in (k + 1)..Len(a) : a[j] = b[j]

\* the remainders of the short division of n by d, from the top digit down
Restos(n, d) ==
    LET R[i \in 0..Len(n)] ==
            IF i = 0 THEN 0 ELSE (R[i - 1] * BASE + n[Len(n) + 1 - i]) % d
    IN R

ConRestos(n, d, R) == Limpio([k \in 1..Len(n) |-> (R[Len(n) - k] * BASE + n[k]) \div d])

\* floor(n / d) and n % d for 0 < d <= 10000
Cociente(n, d) == ConRestos(n, d, Restos(n, d))
Resto(n, d) == Restos(n, d)[Len(n)]

\* floor(n / 10^e), and whether that division or an earlier one was inexact
RECURSIVE EntreDiez(_, _, _)
EntreDiez(n, e, resto) ==
    IF e = 0 THEN [n |-> n, resto |-> resto]
    ELSE EntreDiez(Cociente(n, 10), e - 1, resto \/ Resto(n, 10) # 0)

\* n / 2^k (k > 0) rounded to the nearest integer, ties to even; resto: n
\* stands for a value slightly above n
Cortar(n, k, resto) ==
    IF BitEn(n, k - 1) = 1 /\ (resto \/ HayBajos(n, k - 1) \/ BitEn(n, k) = 1)
    THEN Acarreo(Derecha(n, k), 1)
    ELSE Derecha(n, k)

CeroDoble == [m |-> <<>>, x |-> 0]

\* a rounded mantissa that reached 2^MANTISA loses its last bit
Ajustar(c, x) ==
    IF LargoBits(c) > MANTISA THEN [m |-> Derecha(c, 1), x |-> x + 1] ELSE [m |-> c, x |-> x]

\* the double nearest to n * 2^x (slightly above it when resto, and then n
\* has more than MANTISA + 1 bits)
Redondear(n, x, resto) ==
    IF n = <<>> THEN CeroDoble
    ELSE IF LargoBits(n) <= MANTISA
         THEN [m |-> Izquierda(n, MANTISA - LargoBits(n)),
               x |-> x - (MANTISA - LargoBits(n))]
         ELSE Ajustar(Cortar(n, LargoBits(n) - MANTISA, resto),
                      x + LargoBits(n) - MANTISA)

RedondearDivision(d, k) == Redondear(d.n, -k, d.resto)

\* float() of the decimal text of m / 10^e, m >= 0
Flotante(m, e) ==
    RedondearDivision(EntreDiez(Izquierda(DeEntero(m), 64 + 4 * e), e, FALSE), 64 + 4 * e)

\* the float a record keeps for the number read as n
flotante(n) == Flotante(n.m, n.e)

\* a * b
Multiplicar(a, b) ==
    IF a = CeroDoble \/ b = CeroDoble THEN CeroDoble
    ELSE Redondear(Producto(a.m, b.m), a.x + b.x, FALSE)

RestarAlineados(A, B, x) == Redondear(IF Menor(A, B) THEN Menos(B, A) ELSE Menos(A, B), x, FALSE)

\* abs(a - b) of two doubles above 0.0
DiferenciaAbs(a, b) ==
    RestarAlineados(Izquierda(a.m, a.x - Minimo(a.x, b.x)),
                    Izquierda(b.m, b.x - Minimo(a.x, b.x)),
                    Minimo(a.x, b.x))

\* a > b
Mayor(a, b) ==
    /\ a # CeroDoble
    /\ \/ b = CeroDoble
       \/ a.x > b.x
       \/ a.x = b.x /\ Menor(b.m, a.m)

\* f"{a:.2f}" of a double, as a number of hundredths
fmt2(a) ==
    IF a = CeroDoble THEN 0
    ELSE IF a.x >= 0 THEN AEntero(Izquierda(Producto(a.m, DeEntero(100)), a.x))
    ELSE AEntero(Cortar(Producto(a.m, DeEntero(100)), -a.x, FALSE))

\* ------------------------------------------------------------------------
\* Error codes.  An entry of errores / advertencias / tipos_error is the
\* code text plus the two formatted values INCOHERENCIA_NUMERICA carries.
\* ------------------------------------------------------------------------
Err(c) == [codigo |-> c, detalle |-> <<0, 0>>]
SinError == Err("")

\* ------------------------------------------------------------------------
\* ValidadorSemantico
\* ------------------------------------------------------------------------
validar_clave(clave) ==
    IF ~Truthy(clave) \/ Len(strip(clave)) = 0 THEN [ok |-> FALSE, error |-> Err("CLAVE_VACIA")]
    ELSE IF \E k \in 1..Len(strip(clave)) : strip(clave)[k] = " "
         THEN [ok |-> FALSE, error |-> Err("CLAVE_CON_ESPACIOS")]
    ELSE IF ~es_clave_valida(strip(clave))
         THEN [ok |-> FALSE, error |-> Err("CLAVE_FORMATO_INVALIDO")]
    ELSE [ok |-> TRUE, error |-> SinError]

\* re.match(r'^[A-Z]+\d{1}$', u)
PATRON_UNIDAD(u) ==
    \E n \in 1..Len(u) :
        /\ Len(u) = n + 1 \/ (Len(u) = n + 2 /\ u[n + 2] = "\n")
        /\ \A k \in 1..n : u[k] \in Mayusculas
        /\ u[n + 1] \in Digitos

validar_unidad(unidad) ==
    IF ~Truthy(unidad) \/ Len(strip(unidad)) = 0 THEN [ok |-> FALSE, error |-> Err("UNIDAD_VACIA")]
    ELSE LET unidad_limpia == strip(unidad)
         IN IF Len(unidad_limpia) > 5
            THEN [ok |-> FALSE, error |-> Err("UNIDAD_DEMASIADO_LARGA")]
            ELSE IF (\E k \in 1..Len(unidad_limpia) : unidad_limpia[k] \in Digitos)
                    /\ ~PATRON_UNIDAD(unidad_limpia)
                 THEN [ok |-> FALSE, error |-> Err("UNIDAD_FORMATO_SOSPECHOSO")]
                 ELSE [ok |-> TRUE, error |-> SinError]

LONGITUD_MINIMA_CONCEPTO == 10

validar_concepto(concepto) ==
    IF ~Truthy(concepto) \/ Len(strip(concepto)) = 0
    THEN [ok |-> FALSE, error |-> Err("CONCEPTO_VACIO")]
    ELSE IF Len(strip(concepto)) < LONGITUD_MINIMA_CONCEPTO
         THEN [ok |-> FALSE, error |-> Err("CONCEPTO_DEMASIADO_CORTO")]
         ELSE [ok |-> TRUE, error |-> SinError]

\* ------------------------------------------------------------------------
\* ValidadorNumerico.  TOLERANCIA_REDONDEO is the double written 0.02,
\* that is TOLERANCIA_NUM / TOLERANCIA_DEN.  A number of a record is the
\* decimal that was read; its sign is the sign of its float.
\* ------------------------------------------------------------------------
TOLERANCIA_NUM == 2
TOLERANCIA_DEN == 100

TOLERANCIA_REDONDEO == Flotante(TOLERANCIA_NUM, 2)

\* lines 274-280, importe_calculado and importe as doubles
CompararImportes(importe_calculado, importe) ==
    IF Mayor(DiferenciaAbs(importe, importe_calculado),
             Multiplicar(importe_calculado, TOLERANCIA_REDONDEO))
    THEN [ok |-> FALSE,
          error |-> [codigo |-> "INCOHERENCIA_NUMERICA",
                     detalle |-> <<fmt2(importe_calculado), fmt2(importe)>>]]
    ELSE [ok |-> TRUE, error |-> SinError]

\* faulty variant: only negative numbers are rejected
MalValidarCoherenciaCero(cantidad, precio_unitario, importe) ==
    IF cantidad.m < 0 THEN [ok |-> FALSE, error |-> Err("CANTIDAD_INVALIDA")]
    ELSE IF precio_unitario.m < 0 THEN [ok |-> FALSE, error |-> Err("PRECIO_INVALIDO")]
    ELSE IF importe.m < 0 THEN [ok |-> FALSE, error |-> Err("IMPORTE_INVALIDO")]
    ELSE CompararImportes(Multiplicar(flotante(cantidad), flotante(precio_unitario)),
                          flotante(importe))

\* faulty variant: the unit price is looked at before the quantity
MalValidarCoherencia(cantidad, precio_unitario, importe) ==
    IF precio_unitario.m <= 0 THEN [ok |-> FALSE, error |-> Err("PRECIO_INVALIDO")]
    ELSE IF cantidad.m <= 0 THEN [ok |-> FALSE, error |-> Err("CANTIDAD_INVALIDA")]
    ELSE IF importe.m <= 0 THEN [ok |-> FALSE, error |-> Err("IMPORTE_INVALIDO")]
    ELSE CompararImportes(Multiplicar(flotante(cantidad), flotante(precio_unitario)),
                          flotante(importe))

validar_coherencia(cantidad, precio_unitario, importe) ==
    IF cantidad.m <= 0 THEN [ok |-> FALSE, error |-> Err("CANTIDAD_INVALIDA")]
    ELSE IF precio_unitario.m <= 0 THEN [ok |-> FALSE, error |-> Err("PRECIO_INVALIDO")]
    ELSE IF importe.m <= 0 THEN [ok |-> FALSE, error |-> Err("IMPORTE_INVALIDO")]
    ELSE CompararImportes(Multiplicar(flotante(cantidad), flotante(precio_unitario)),
                          flotante(importe))

\* ------------------------------------------------------------------------
\* ExtractorConceptosREMAA: multiline reconstruction and the table scanner
\* ------------------------------------------------------------------------
\* the condition `celda and ValidadorClave.es_clave_valida(str(celda).strip())`
TieneClave(fila) == Truthy(Col(fila, 0)) /\ es_clave_valida(strip(Col(fila, 0)))

\* faulty variant: a row with blank columns 0 and 1 is stepped over and the
\* search for continuation lines goes on after it
RECURSIVE MalBuscarLineasSalta(_, _, _)
MalBuscarLineasSalta(filas, fila_actual, concepto_partes) ==
    IF ~(fila_actual < Len(filas))
    THEN [partes |-> concepto_partes, fila_actual |-> fila_actual, error |-> FALSE]
    ELSE
      LET fila == Fila(filas, fila_actual)
          fin == [partes |-> concepto_partes, fila_actual |-> fila_actual, error |-> FALSE]
      IN IF Len(fila) = 0
         THEN [partes |-> concepto_partes, fila_actual |-> fila_actual, error |-> TRUE]
         ELSE IF TieneClave(fila) THEN fin
         ELSE IF ~Truthy(Col(fila, 0)) \/ strip(Col(fila, 0)) = <<>>
              THEN IF Len(fila) > 1 /\ Truthy(Col(fila, 1)) /\ strip(Col(fila, 1)) # <<>>
                   THEN MalBuscarLineasSalta(filas, fila_actual + 1,
                                             Append(concepto_partes, strip(Col(fila, 1))))
                   ELSE MalBuscarLineasSalta(filas, fila_actual + 1, concepto_partes)
              ELSE fin

\* the while loop of reconstruir_concepto_multilinea; error is the IndexError
\* of fila[0] on a row without cells
RECURSIVE BuscarLineas(_, _, _)
BuscarLineas(filas, fila_actual, concepto_partes) ==
    IF ~(fila_actual < Len(filas))
    THEN [partes |-> concepto_partes, fila_actual |-> fila_actual, error |-> FALSE]
    ELSE
      LET fila == Fila(filas, fila_actual)
          fin == [partes |-> concepto_partes, fila_actual |-> fila_actual, error |-> FALSE]
      IN IF Len(fila) = 0
         THEN [partes |-> concepto_partes, fila_actual |-> fila_actual, error |-> TRUE]
         ELSE IF TieneClave(fila) THEN fin
         ELSE IF /\ (~Truthy(Col(fila, 0)) \/ strip(Col(fila, 0)) = <<>>)
                 /\ Len(fila) > 1
                 /\ Truthy(Col(fila, 1))
              THEN IF strip(Col(fila, 1)) # <<>>
                   THEN BuscarLineas(filas, fila_actual + 1,
                                     Append(concepto_partes, strip(Col(fila, 1))))
                   ELSE fin
              ELSE fin

\* faulty variant: the fragments are joined without a separator
MalReconstruir(filas, inicio) ==
    LET partes0 == IF Len(Fila(filas, inicio)) > 1 /\ Truthy(Col(Fila(filas, inicio), 1))
                   THEN <<strip(Col(Fila(filas, inicio), 1))>>
                   ELSE <<>>
        b == BuscarLineas(filas, inicio + 1, partes0)
    IN [concepto |-> join(<<>>, b.partes),
        ultima_fila |-> b.fila_actual - 1,
        error |-> b.error]

\* faulty variant: the index of the row that ended the run is returned
MalReconstruirUltima(filas, inicio) ==
    LET partes0 == IF Len(Fila(filas, inicio)) > 1 /\ Truthy(Col(Fila(filas, inicio), 1))
                   THEN <<strip(Col(Fila(filas, inicio), 1))>>
                   ELSE <<>>
        b == BuscarLineas(filas, inicio + 1, partes0)
    IN [concepto |-> join(<<" ">>, b.partes),
        ultima_fila |-> b.fila_actual,
        error |-> b.error]

\* returns (concepto_completo, fila_actual - 1)
reconstruir_concepto_multilinea(filas, inicio) ==
    LET partes0 == IF Len(Fila(filas, inicio)) > 1 /\ Truthy(Col(Fila(filas, inicio), 1))
                   THEN <<strip(Col(Fila(filas, inicio), 1))>>
                   ELSE <<>>
        b == BuscarLineas(filas, inicio + 1, partes0)
    IN [concepto |-> join(<<" ">>, b.partes),
        ultima_fila |-> b.fila_actual - 1,
        error |-> b.error]

\* faulty variant: a failure of validar_concepto is appended to the errors
MalAplicarValidaciones(concepto) ==
    LET vc == validar_clave(concepto.clave)
        vu == validar_unidad(concepto.unidad)
        vd == validar_concepto(concepto.concepto_original)
        vn == validar_coherencia(concepto.cantidad, concepto.precio_unitario,
                                 concepto.importe)
        e1 == IF vc.ok THEN concepto.errores ELSE Append(concepto.errores, vc.error)
        e2 == IF vu.ok THEN e1 ELSE Append(e1, vu.error)
        e3 == IF vd.ok THEN e2 ELSE Append(e2, vd.error)
        e4 == IF vn.ok THEN e3 ELSE Append(e3, vn.error)
    IN [concepto EXCEPT !.errores = e4]

\* appends the codes of TEST 4 and TEST 5 to the record
aplicar_validaciones(concepto) ==
    LET vc == validar_clave(concepto.clave)
        vu == validar_unidad(concepto.unidad)
        vd == validar_concepto(concepto.concepto_original)
        vn == validar_coherencia(concepto.cantidad, concepto.precio_unitario,
                                 concepto.importe)
        e1 == IF vc.ok THEN concepto.errores ELSE Append(concepto.errores, vc.error)
        e2 == IF vu.ok THEN e1 ELSE Append(e1, vu.error)
        a1 == IF vd.ok THEN concepto.advertencias
              ELSE Append(concepto.advertencias, vd.error)
        e3 == IF vn.ok THEN e2 ELSE Append(e2, vn.error)
    IN [concepto EXCEPT !.errores = e3, !.advertencias = a1]

\* faulty variant: the key is taken from the cell as it is written
MalConceptoDeFilaClaveCruda(tabla, i, nombre_archivo, concepto) ==
    LET fila == Fila(tabla, i)
        unidad == IF Len(fila) > 2 /\ Truthy(Col(fila, 2)) THEN strip(Col(fila, 2)) ELSE <<>>
        cantidad == IF Len(fila) > 3 THEN limpiar_valor_numerico(Col(fila, 3)) ELSE SinNumero
        precio_unitario == IF Len(fila) > 4 THEN limpiar_valor_numerico(Col(fila, 4))
                           ELSE SinNumero
        importe == IF Len(fila) > 5 THEN limpiar_valor_numerico(Col(fila, 5)) ELSE SinNumero
    IN aplicar_validaciones(
         [clave |-> Col(fila, 0),
          concepto_original |-> concepto,
          unidad |-> unidad,
          cantidad |-> OCero(cantidad),
          precio_unitario |-> OCero(precio_unitario),
          importe |-> OCero(importe),
          origen_pdf |-> nombre_archivo,
          numero_linea |-> i + 1,
          errores |-> <<>>,
          advertencias |-> <<>>])

\* the record built at a row with a key (lines 489-515)
ConceptoDeFila(tabla, i, nombre_archivo, concepto) ==
    LET fila == Fila(tabla, i)
        unidad == IF Len(fila) > 2 /\ Truthy(Col(fila, 2)) THEN strip(Col(fila, 2)) ELSE <<>>
        cantidad == IF Len(fila) > 3 THEN limpiar_valor_numerico(Col(fila, 3)) ELSE SinNumero
        precio_unitario == IF Len(fila) > 4 THEN limpiar_valor_numerico(Col(fila, 4))
                           ELSE SinNumero
        importe == IF Len(fila) > 5 THEN limpiar_valor_numerico(Col(fila, 5)) ELSE SinNumero
    IN aplicar_validaciones(
         [clave |-> strip(Col(fila, 0)),
          concepto_original |-> concepto,
          unidad |-> unidad,
          cantidad |-> OCero(cantidad),
          precio_unitario |-> OCero(precio_unitario),
          importe |-> OCero(importe),
          origen_pdf |-> nombre_archivo,
          numero_linea |-> i + 1,
          errores |-> <<>>,
          advertencias |-> <<>>])

\* State of one call of procesar_tabla_pdf: the locals i, conceptos and
\* ultima_fila, and the position in the function:
\*   "inicio" before line 468, "encabezado" in the loop of lines 475-478,
\*   "conceptos" in the loop of lines 481-520, "fin" after the return,
\*   "error" when an IndexError left the function.
EstadoInicial == [i |-> 0, conceptos |-> <<>>, ultima_fila |-> -1, fase |-> "inicio"]

\* faulty variant: the row after a record's last row is stepped over
MalPasoTabla(tabla, nombre_archivo, st) ==
    IF st.fase = "inicio"
    THEN IF tabla = <<>> \/ Len(tabla) < 2
         THEN [st EXCEPT !.fase = "fin"]
         ELSE [st EXCEPT !.fase = "encabezado"]
    ELSE IF st.fase = "encabezado"
    THEN IF st.i < Len(tabla)
         THEN IF Len(Fila(tabla, st.i)) = 0 THEN [st EXCEPT !.fase = "error"]
              ELSE IF TieneClave(Fila(tabla, st.i)) THEN [st EXCEPT !.fase = "conceptos"]
              ELSE [st EXCEPT !.i = st.i + 1]
         ELSE [st EXCEPT !.fase = "conceptos"]
    ELSE IF st.fase = "conceptos"
    THEN IF st.i < Len(tabla)
         THEN IF Len(Fila(tabla, st.i)) = 0 THEN [st EXCEPT !.fase = "error"]
              ELSE IF ~TieneClave(Fila(tabla, st.i)) THEN [st EXCEPT !.i = st.i + 1]
              ELSE LET r == reconstruir_concepto_multilinea(tabla, st.i)
                   IN IF r.error THEN [st EXCEPT !.fase = "error"]
                      ELSE [st EXCEPT
                              !.conceptos = Append(st.conceptos,
                                  ConceptoDeFila(tabla, st.i, nombre_archivo, r.concepto)),
                              !.ultima_fila = r.ultima_fila,
                              !.i = r.ultima_fila + 2]
         ELSE [st EXCEPT !.fase = "fin"]
    ELSE st

\* faulty variant: a row without a key is not stepped over (line 486)
MalPasoTablaSinAvance(tabla, nombre_archivo, st) ==
    IF st.fase = "inicio"
    THEN IF tabla = <<>> \/ Len(tabla) < 2
         THEN [st EXCEPT !.fase = "fin"]
         ELSE [st EXCEPT !.fase = "encabezado"]
    ELSE IF st.fase = "encabezado"
    THEN IF st.i < Len(tabla)
         THEN IF Len(Fila(tabla, st.i)) = 0 THEN [st EXCEPT !.fase = "error"]
              ELSE IF TieneClave(Fila(tabla, st.i)) THEN [st EXCEPT !.fase = "conceptos"]
              ELSE [st EXCEPT !.i = st.i + 1]
         ELSE [st EXCEPT !.fase = "conceptos"]
    ELSE IF st.fase = "conceptos"
    THEN IF st.i < Len(tabla)
         THEN IF Len(Fila(tabla, st.i)) = 0 THEN [st EXCEPT !.fase = "error"]
              ELSE IF ~TieneClave(Fila(tabla, st.i)) THEN st
              ELSE LET r == reconstruir_concepto_multilinea(tabla, st.i)
                   IN IF r.error THEN [st EXCEPT !.fase = "error"]
                      ELSE [st EXCEPT
                              !.conceptos = Append(st.conceptos,
                                  ConceptoDeFila(tabla, st.i, nombre_archivo, r.concepto)),
                              !.ultima_fila = r.ultima_fila,
                              !.i = r.ultima_fila + 1]
         ELSE [st EXCEPT !.fase = "fin"]
    ELSE st

\* one step of procesar_tabla_pdf
PasoTabla(tabla, nombre_archivo, st) ==
    IF st.fase = "inicio"
    THEN IF tabla = <<>> \/ Len(tabla) < 2
         THEN [st EXCEPT !.fase = "fin"]
         ELSE [st EXCEPT !.fase = "encabezado"]
    ELSE IF st.fase = "encabezado"
    THEN IF st.i < Len(tabla)
         THEN IF Len(Fila(tabla, st.i)) = 0 THEN [st EXCEPT !.fase = "error"]
              ELSE IF TieneClave(Fila(tabla, st.i)) THEN [st EXCEPT !.fase = "conceptos"]
              ELSE [st EXCEPT !.i = st.i + 1]
         ELSE [st EXCEPT !.fase = "conceptos"]
    ELSE IF st.fase = "conceptos"
    THEN IF st.i < Len(tabla)
         THEN IF Len(Fila(tabla, st.i)) = 0 THEN [st EXCEPT !.fase = "error"]
              ELSE IF ~TieneClave(Fila(tabla, st.i)) THEN [st EXCEPT !.i = st.i + 1]
              ELSE LET r == reconstruir_concepto_multilinea(tabla, st.i)
                   IN IF r.error THEN [st EXCEPT !.fase = "error"]
                      ELSE [st EXCEPT
                              !.conceptos = Append(st.conceptos,
                                  ConceptoDeFila(tabla, st.i, nombre_archivo, r.concepto)),
                              !.ultima_fila = r.ultima_fila,
                              !.i = r.ultima_fila + 1]
         ELSE [st EXCEPT !.fase = "fin"]
    ELSE st

RECURSIVE EjecutarTabla(_, _, _)
EjecutarTabla(tabla, nombre_archivo, st) ==
    IF st.fase \in {"fin", "error"} THEN st
    ELSE EjecutarTabla(tabla, nombre_archivo, PasoTabla(tabla, nombre_archivo, st))

\* the whole call: the list returned, or error when an exception left it
procesar_tabla_pdf(tabla, nombre_archivo) ==
    LET st == EjecutarTabla(tabla, nombre_archivo, EstadoInicial)
    IN [conceptos |-> st.conceptos, error |-> st.fase = "error"]

\* ------------------------------------------------------------------------
\* Inputs: rows as pdfplumber returns them (every row of a table has at
\* least one cell; a cell is a text or None)
\* ------------------------------------------------------------------------
\* header row
FilaEncabezado ==
    << <<"C", "L", "A", "V", "E">>,
       <<"C", "O", "N", "C", "E", "P", "T", "O">>,
       <<"U", "N", "I", "D">>,
       <<"C", "A", "N", "T">>,
       <<"P", ".", "U", ".">>,
       <<"I", "M", "P", "O", "R", "T", "E">> >>

\* key row, clean
FilaHER ==
    << <<"H", "E", "R", "-", "0", "0", "1">>,
       <<"S", "u", "m", "i", "n", "i", "s", "t", "r", "o">>,
       <<"P", "Z", "S">>,
       <<"1", "0">>,
       <<"5", "0", ".", "0", "0">>,
       <<"5", "0", "0", ".", "0", "0">> >>

\* continuation row
FilaContinua ==
    << <<>>,
       <<"d", "e", " ", "c", "o", "b", "r", "e">>,
       <<>>,
       <<>>,
       <<>>,
       <<>> >>

\* key row, short description
FilaAB ==
    << <<"A", "B", "-", "0", "0", "2">>,
       <<"T", "u", "b", "o", " ", "P", "V", "C">>,
       <<"M", "2">>,
       <<"2">>,
       <<"1", ".", "5", "0">>,
       <<"3", ".", "0", "0">> >>

\* row of absent cells
FilaNula ==
    << None,
       None,
       None,
       None,
       None,
       None >>

\* padded key, empty description, long unit, zero quantity
FilaHERmala ==
    << <<" ", "H", "E", "R", "-", "0", "0", "1", " ">>,
       <<>>,
       <<"P", "I", "E", "Z", "A", "S">>,
       <<"0">>,
       <<"5", "0", ".", "0", "0">>,
       <<"5", "0", "0", ".", "0", "0">> >>

\* two-cell continuation row with a blank first cell
FilaContinuaCorta ==
    << <<" ">>,
       <<" ", "x", " ">> >>

\* one-cell key row
FilaSoloClave ==
    << <<"H", "E", "R", "-", "0", "0", "1">> >>

\* row whose second cell is blank
FilaBlanca ==
    << None,
       <<" ", " ">> >>

\* key row with a blank description and an incoherent amount
FilaHERblanca ==
    << <<"H", "E", "R", "-", "0", "0", "1">>,
       <<" ">>,
       <<"P", "Z", "S">>,
       <<"1", "0">>,
       <<"5", "0", ".", "0", "0">>,
       <<"5", "6", "0", ".", "0", "0">> >>

\* key row, clean, same key as FilaHER
FilaHERotra ==
    << <<"H", "E", "R", "-", "0", "0", "1">>,
       <<"O", "t", "r", "o", " ", "s", "u", "m", "i", "n", "i", "s", "t", "r", "o">>,
       <<"P", "Z", "S">>,
       <<"1">>,
       <<"$", "1", ",", "0", "0", "0", ".", "0", "0">>,
       <<"1", "0", "0", "0">> >>

\* key row with an empty description and nothing else wrong
FilaCDvacia ==
    << <<"C", "D", "-", "0", "0", "3">>,
       <<>>,
       <<"M", "2">>,
       <<"4">>,
       <<"2", ".", "5", "0">>,
       <<"1", "0", ".", "0", "0">> >>

\* key row whose amount is three times quantity * unit price
FilaEFcara ==
    << <<"E", "F", "-", "0", "0", "4">>,
       <<"E", "x", "c", "a", "v", "a", "c", "i", "o", "n", " ", "a", " ", "m", "a", "n", "o">>,
       <<"M", "3">>,
       <<"2">>,
       <<"1", ".", "5", "0">>,
       <<"9", ".", "0", "0">> >>

TextoPlantilla ==
    <<"C", "L", "A", "V", "E", " ", "C", "O", "N", "C", "E", "P", "T", "O", " ", "U", "N", "I", "D", " ", "P", ".", "U", ".", " ", "I", "M", "P", "O", "R", "T", "E", "\n", "H", "E", "R", "-", "0", "0", "1">>

TextoMinusculas ==
    <<"c", "l", "a", "v", "e", " ", "c", "o", "n", "c", "e", "p", "t", "o", " ", "u", "n", "i", "d", " ", "p", ".", "u", ".", " ", "i", "m", "p", "o", "r", "t", "e", " ", "h", "e", "r", "-", "0", "0", "1">>

TextoSinPU ==
    <<"C", "L", "A", "V", "E", " ", "C", "O", "N", "C", "E", "P", "T", "O", " ", "U", "N", "I", "D", " ", "I", "M", "P", "O", "R", "T", "E", " ", "H", "E", "R", "-", "0", "0", "1">>

TextoClave ==
    <<"A", "B", "-", "0", "0", "2", " ", "T", "u", "b", "o">>

FilasPosibles ==
    {FilaEncabezado, FilaHER, FilaContinua, FilaAB, FilaNula, FilaHERmala,
     FilaContinuaCorta, FilaSoloClave, FilaBlanca, FilaHERblanca}

MaxFilas == 3

RECURSIVE SeqHasta(_, _)
SeqHasta(S, n) ==
    IF n = 0 THEN {<<>>}
    ELSE LET menores == SeqHasta(S, n - 1)
         IN menores \cup {Append(s, x) : s \in {m \in menores : Len(m) = n - 1}, x \in S}

TablasPosibles == SeqHasta(FilasPosibles, MaxFilas)

NombreTabla == "tabla.pdf"

\* ------------------------------------------------------------------------
\* Documents.  A page gives its text (None or empty when it has none) and
\* what extract_table returns with the "lines" strategies and with the
\* default ones; <<>> stands for both None and [] (the code only tests
\* `not tabla`); lanza_tabla: extract_table raises on this page.
\* lanza_texto: pdfplumber raises while the text of the document is read.
\* ------------------------------------------------------------------------
Pagina(texto, lanza, lineas, alterna) ==
    [texto |-> texto, lanza_tabla |-> lanza, tabla_lineas |-> lineas,
     tabla_alterna |-> alterna]

\* one clean record HER-001 with a continuation line
DocBueno ==
    [lanza_texto |-> FALSE,
     paginas |-> << Pagina(TextoPlantilla, FALSE,
                           <<FilaEncabezado, FilaHER, FilaContinua>>, <<>>) >>]

\* two pages: an incoherent HER-001 and a warned AB-002 found by the
\* alternate strategy, then a page without text whose table repeats key
\* HER-001, has a record CD-003 whose only defect is an empty description
\* and ends with a second incoherent record
DocMixto ==
    [lanza_texto |-> FALSE,
     paginas |-> << Pagina(TextoPlantilla, FALSE, <<>>,
                           <<FilaEncabezado, FilaHERblanca, FilaAB>>),
                    Pagina(None, FALSE,
                           <<FilaHERotra, FilaNula, FilaCDvacia, FilaEFcara>>,
                           <<>>) >>]

DocLanzaTexto ==
    [lanza_texto |-> TRUE,
     paginas |-> << Pagina(TextoPlantilla, FALSE,
                           <<FilaEncabezado, FilaHER, FilaContinua>>, <<>>) >>]

DocSinPlantilla ==
    [lanza_texto |-> FALSE,
     paginas |-> << Pagina(TextoSinPU, FALSE, <<FilaEncabezado, FilaHER>>, <<>>) >>]

DocSinClaves ==
    [lanza_texto |-> FALSE,
     paginas |-> << Pagina(TextoMinusculas, FALSE, <<FilaEncabezado, FilaHER>>, <<>>) >>]

\* the first page raises in extract_table, the second has a one-row table,
\* the third a table without key rows
DocSinConceptos ==
    [lanza_texto |-> FALSE,
     paginas |-> << Pagina(TextoPlantilla, TRUE, <<FilaEncabezado, FilaHER>>, <<>>),
                    Pagina(<<>>, FALSE, <<FilaSoloClave>>, <<>>),
                    Pagina(TextoClave, FALSE, <<>>, <<FilaEncabezado, FilaContinua>>) >>]

DocSinTexto ==
    [lanza_texto |-> FALSE,
     paginas |-> << Pagina(<<>>, FALSE, <<FilaEncabezado, FilaHER>>, <<>>),
                    Pagina(None, FALSE, <<>>, <<>>) >>]

\* two records, each with an incoherent amount, the first with a blank
\* description too
DocErroneo ==
    [lanza_texto |-> FALSE,
     paginas |-> << Pagina(TextoPlantilla, FALSE,
                           <<FilaEncabezado, FilaHERblanca, FilaEFcara>>, <<>>) >>]

DocumentosPosibles ==
    {DocBueno, DocMixto, DocLanzaTexto, DocSinPlantilla, DocSinClaves,
     DocSinConceptos, DocSinTexto}

\* the documents of the runs that meet a document without an error-free
\* record
DocumentosConErroneo ==
    {DocErroneo, DocBueno, DocSinConceptos}

MaxDocs == 3

\* sorted(Path(carpeta).glob("*.pdf")): the k-th file of the folder
NombresArchivo == <<"doc1.pdf", "doc2.pdf", "doc3.pdf", "doc4.pdf", "doc5.pdf",
                    "doc6.pdf", "doc7.pdf", "doc8.pdf">>

\* ------------------------------------------------------------------------
\* The collaborators' wrappers
\* ------------------------------------------------------------------------
\* faulty variant: a failure of pdfplumber is ignored
MalExtraerTextoCompleto(doc) ==
    join(<<"\n">>,
         SelectSeq([k \in 1..Len(doc.paginas) |-> doc.paginas[k].texto], Truthy))

\* None when pdfplumber raises, else the texts of the pages that have one,
\* joined by newlines
extraer_texto_completo_pdf(doc) ==
    IF doc.lanza_texto THEN None
    ELSE join(<<"\n">>,
              SelectSeq([k \in 1..Len(doc.paginas) |-> doc.paginas[k].texto], Truthy))

\* [] when extract_table raises or finds nothing with either strategy
extraer_tabla_con_contexto(pagina) ==
    IF pagina.lanza_tabla THEN <<>>
    ELSE IF pagina.tabla_lineas # <<>> THEN pagina.tabla_lineas
    ELSE pagina.tabla_alterna

\* ------------------------------------------------------------------------
\* Outputs
\* ------------------------------------------------------------------------
\* faulty variant: keep='last'
MalDropDuplicates(datos) ==
    LET quedan == {k \in 1..Len(datos) :
                     \A j \in (k + 1)..Len(datos) : datos[j].clave # datos[k].clave}
        F[k \in 0..Len(datos)] ==
            IF k = 0 THEN <<>>
            ELSE IF k \in quedan THEN Append(F[k - 1], datos[k]) ELSE F[k - 1]
    IN F[Len(datos)]

\* df.drop_duplicates(subset=['clave'], keep='first')
drop_duplicates(datos) ==
    LET quedan == {k \in 1..Len(datos) :
                     \A j \in 1..(k - 1) : datos[j].clave # datos[k].clave}
        F[k \in 0..Len(datos)] ==
            IF k = 0 THEN <<>>
            ELSE IF k \in quedan THEN Append(F[k - 1], datos[k]) ELSE F[k - 1]
    IN F[Len(datos)]

FilaCsv(concepto) ==
    [clave |-> concepto.clave,
     concepto_original |-> concepto.concepto_original,
     unidad |-> concepto.unidad,
     precio_unitario |-> concepto.precio_unitario,
     origen_pdf |-> concepto.origen_pdf]

SinArchivo == [escrito |-> FALSE, filas |-> <<>>, duplicados |-> 0]

\* faulty variant: records with errors are exported too
MalGenerarCsvMaster(conceptos) ==
    IF conceptos = <<>> THEN SinArchivo
    ELSE LET df == [k \in 1..Len(conceptos) |-> FilaCsv(conceptos[k])]
             df_unico == drop_duplicates(df)
         IN [escrito |-> TRUE, filas |-> df_unico,
             duplicados |-> Len(df) - Len(df_unico)]

\* faulty variant: the duplicates are dropped before the records with
\* errors are left out
MalGenerarCsvMasterAlReves(conceptos) ==
    IF conceptos = <<>> THEN SinArchivo
    ELSE LET unicos == drop_duplicates(conceptos)
             sin_errores == SelectSeq(unicos, LAMBDA c : c.errores = <<>>)
             datos == [k \in 1..Len(sin_errores) |-> FilaCsv(sin_errores[k])]
         IN IF datos = <<>> THEN SinArchivo
            ELSE [escrito |-> TRUE, filas |-> datos,
                  duplicados |-> Len(conceptos) - Len(unicos)]

\* the file written by generar_csv_master and the number of dropped
\* duplicates it prints; nothing is written without an error-free record
generar_csv_master(conceptos) ==
    IF conceptos = <<>> THEN SinArchivo
    ELSE LET sin_errores == SelectSeq(conceptos, LAMBDA c : c.errores = <<>>)
             datos == [k \in 1..Len(sin_errores) |-> FilaCsv(sin_errores[k])]
         IN IF datos = <<>> THEN SinArchivo
            ELSE LET df_unico == drop_duplicates(datos)
                 IN [escrito |-> TRUE, filas |-> df_unico,
                     duplicados |-> Len(datos) - Len(df_unico)]

\* one row per result
generar_reporte_validacion(resultados) ==
    IF resultados = <<>> THEN [escrito |-> FALSE, filas |-> <<>>]
    ELSE [escrito |-> TRUE, filas |-> resultados]

\* the statistics, one block per result, and the section
\* "CONCEPTOS CON ERRORES/ADVERTENCIAS"
generar_log_detallado(estadisticas, resultados, conceptos) ==
    [escrito |-> TRUE,
     estadisticas |-> estadisticas,
     detalle |-> resultados,
     conceptos |-> SelectSeq(conceptos,
                             LAMBDA c : c.errores # <<>> \/ c.advertencias # <<>>)]

\* the counters set by __init__
EstadisticasIniciales ==
    [total_pdfs |-> 0, pdfs_procesados |-> 0, pdfs_validos |-> 0, pdfs_ignorados |-> 0,
     total_conceptos |-> 0, conceptos_validos |-> 0, conceptos_con_errores |-> 0]

SinLog == [escrito |-> FALSE, estadisticas |-> EstadisticasIniciales,
           detalle |-> <<>>, conceptos |-> <<>>]

\* ------------------------------------------------------------------------
\* State
\* ------------------------------------------------------------------------
VARIABLES
    tabla,                  \* the table handed to procesar_tabla_pdf
    escaner,                \* the locals and the position of that call
    carpeta,                \* carpeta_pdfs: whether it exists and its sorted PDFs
    pc,                     \* position in ejecutar_extraccion_completa and its callees
    idx,                    \* number of PDFs the loop of procesar_todos_los_pdfs has left behind
    conceptos_extraidos,    \* self.conceptos_extraidos
    resultados_validacion,  \* self.resultados_validacion
    estadisticas,           \* the seven counters of the extractor
    resultado,              \* procesar_pdf: the result being built / returned
    texto_completo,         \* procesar_pdf: local
    conceptos_pdf,          \* procesar_pdf: local
    num_pagina,             \* procesar_pdf: page of the loop, from 1
    excepcion,              \* procesar_pdf: the exception raised inside the try, "" if none
    llamadas,               \* calls made by the current call of procesar_pdf
    conceptos_antes,        \* self.conceptos_extraidos when that call began
    csv_master,             \* conceptos_master.csv
    reporte_validacion,     \* reporte_validacion.csv
    log_detallado,          \* log_extraccion_v2.txt
    entrada,                \* the arguments of a call of a validator
    salida                  \* what that call returned

vars == <<tabla, escaner, carpeta, pc, idx, conceptos_extraidos, resultados_validacion,
          estadisticas, resultado, texto_completo, conceptos_pdf, num_pagina, excepcion,
          llamadas,
          conceptos_antes, csv_master, reporte_validacion, log_detallado,
          entrada, salida>>

varsTabla == <<tabla, escaner>>

varsPuras == <<entrada, salida>>

\* no validator call is being followed
SinLlamada == [hecha |-> FALSE, valor |-> <<>>]

varsExtractor == <<carpeta, pc, idx, conceptos_extraidos, resultados_validacion,
                   estadisticas, resultado, texto_completo, conceptos_pdf, num_pagina,
                   excepcion, llamadas, conceptos_antes, csv_master, reporte_validacion,
                   log_detallado>>

\* a message: its fixed text and the values formatted into it
Mensaje(txt) == [txt |-> txt, faltan |-> <<>>, validos |-> 0, total |-> 0, error |-> ""]

\* ResultadoValidacionPDF(nombre_archivo, es_valido=False, es_plantilla_remaa=False)
ResultadoValidacionPDF(nombre_archivo) ==
    [nombre_archivo |-> nombre_archivo,
     es_valido |-> FALSE,
     es_plantilla_remaa |-> FALSE,
     conceptos_extraidos |-> 0,
     conceptos_validos |-> 0,
     errores_criticos |-> 0,
     advertencias |-> 0,
     tipos_error |-> <<>>,
     mensaje |-> Mensaje("")]

Llamada(op, pagina) == [op |-> op, pagina |-> pagina]

\* the state after ExtractorConceptosREMAA.__init__
InitExtractor ==
    /\ pc = "inicio"
    /\ idx = 0
    /\ conceptos_extraidos = <<>>
    /\ resultados_validacion = <<>>
    /\ estadisticas = EstadisticasIniciales
    /\ resultado = ResultadoValidacionPDF("")
    /\ texto_completo = None
    /\ conceptos_pdf = <<>>
    /\ num_pagina = 0
    /\ excepcion = ""
    /\ llamadas = <<>>
    /\ conceptos_antes = <<>>
    /\ csv_master = SinArchivo
    /\ reporte_validacion = [escrito |-> FALSE, filas |-> <<>>]
    /\ log_detallado = SinLog

\* ------------------------------------------------------------------------
\* procesar_tabla_pdf, step by step
\* ------------------------------------------------------------------------
EnFila == escaner.i < Len(tabla) /\ Len(Fila(tabla, escaner.i)) > 0

Avanzar == /\ escaner' = PasoTabla(tabla, NombreTabla, escaner)
           /\ UNCHANGED <<tabla, varsPuras, varsExtractor>>

\* lines 468-469: fewer than two rows
TablaSinFilas == escaner.fase = "inicio" /\ Len(tabla) < 2 /\ Avanzar

\* lines 471-472
IniciarEscaneo == escaner.fase = "inicio" /\ Len(tabla) >= 2 /\ Avanzar

\* line 478
SaltarEncabezado ==
    escaner.fase = "encabezado" /\ EnFila /\ ~TieneClave(Fila(tabla, escaner.i)) /\ Avanzar

\* line 477, or the loop of line 475 ends
FinEncabezado ==
    /\ escaner.fase = "encabezado"
    /\ ~(escaner.i < Len(tabla)) \/ (EnFila /\ TieneClave(Fila(tabla, escaner.i)))
    /\ Avanzar

\* lines 485-487
SaltarFila ==
    escaner.fase = "conceptos" /\ EnFila /\ ~TieneClave(Fila(tabla, escaner.i)) /\ Avanzar

\* lines 489-520
EmitirConcepto ==
    escaner.fase = "conceptos" /\ EnFila /\ TieneClave(Fila(tabla, escaner.i)) /\ Avanzar

\* line 522
FinTabla == escaner.fase = "conceptos" /\ ~(escaner.i < Len(tabla)) /\ Avanzar

InitTabla ==
    /\ tabla \in TablasPosibles
    /\ escaner = EstadoInicial
    /\ entrada = <<>>
    /\ salida = SinLlamada
    /\ carpeta = [existe |-> FALSE, pdfs |-> <<>>]
    /\ InitExtractor

NextTabla ==
    \/ TablaSinFilas
    \/ IniciarEscaneo
    \/ SaltarEncabezado
    \/ FinEncabezado
    \/ SaltarFila
    \/ EmitirConcepto
    \/ FinTabla

SpecTabla == InitTabla /\ [][NextTabla]_vars

\* the call has returned or an exception has left it
Terminado == escaner.fase \in {"fin", "error"}

\* The call runs on: a single thread executes it, so that at every position
\* before the return the next step is taken.  A step of NextTabla is
\* possible exactly when ~Terminado (HayPaso below), so this is weak
\* fairness of NextTabla, written without its enabling condition.
EjecucionJusta == []<>Terminado \/ []<><<NextTabla>>_vars

SpecTablaJusta == SpecTabla /\ EjecucionJusta

\* ------------------------------------------------------------------------
\* procesar_tabla_pdf over any list of lists: rows of every width from no
\* cell at all to the six columns of the template
\* ------------------------------------------------------------------------
FilaSinCeldas == <<>>

\* key row that ends after the unit
FilaHERcorta ==
    << <<"H", "E", "R", "-", "0", "0", "1">>,
       <<"S", "u", "m", "i", "n", "i", "s", "t", "r", "o">>,
       <<"P", "Z", "S">> >>

\* key row that ends after the unit price
FilaABsinImporte ==
    << <<"A", "B", "-", "0", "0", "2">>,
       <<"T", "u", "b", "o", " ", "P", "V", "C">>,
       <<"M", "2">>,
       <<"2">>,
       <<"1", ".", "5", "0">> >>

\* key row whose unit price is a text without digits
FilaABsinPrecio ==
    << <<"A", "B", "-", "0", "0", "2">>,
       <<"T", "u", "b", "o", " ", "P", "V", "C">>,
       <<"M", "2">>,
       <<"2">>,
       <<"N", "/", "A">>,
       <<"3", ".", "0", "0">> >>

\* key row with a negative quantity, a unit price of signs only and no amount
FilaABnegativa ==
    << <<"A", "B", "-", "0", "0", "2">>,
       <<"T", "u", "b", "o", " ", "P", "V", "C">>,
       <<"M", "2">>,
       <<"-", "2">>,
       <<"$", " ", "-", ".">>,
       None >>

FilasAngostas ==
    {FilaSinCeldas, FilaSoloClave, FilaContinuaCorta, FilaHERcorta, FilaHER, FilaBlanca,
     FilaABsinImporte, FilaABsinPrecio, FilaABnegativa}

TablasAngostas == SeqHasta(FilasAngostas, MaxFilas)

\* lines 476 and 485: tabla[i][0] on a row without cells raises IndexError
FallaIndice ==
    /\ escaner.fase \in {"encabezado", "conceptos"}
    /\ escaner.i < Len(tabla)
    /\ Len(Fila(tabla, escaner.i)) = 0
    /\ Avanzar

InitTablaAngosta ==
    /\ tabla \in TablasAngostas
    /\ escaner = EstadoInicial
    /\ entrada = <<>>
    /\ salida = SinLlamada
    /\ carpeta = [existe |-> FALSE, pdfs |-> <<>>]
    /\ InitExtractor

NextTablaAngosta ==
    \/ NextTabla
    \/ FallaIndice

SpecTablaAngosta == InitTablaAngosta /\ [][NextTablaAngosta]_vars

\* ------------------------------------------------------------------------
\* ejecutar_extraccion_completa, procesar_todos_los_pdfs and procesar_pdf
\* ------------------------------------------------------------------------
Documento == carpeta.pdfs[idx + 1]

Retornar(r) == /\ resultado' = r
               /\ pc' = "retorno"

\* the orders in which list(tipos_error_set) may enumerate a set
Ordenes(S) ==
    {o \in [1..Cardinality(S) -> S] : \A x \in S : \E k \in 1..Cardinality(S) : o[k] = x}

\* faulty variant: the unusable folder is recorded as a rejected document
MalAbortarSinEntrada ==
    /\ pc = "inicio"
    /\ ~carpeta.existe \/ carpeta.pdfs = <<>>
    /\ resultados_validacion' = Append(resultados_validacion, ResultadoValidacionPDF(""))
    /\ estadisticas' = [estadisticas EXCEPT !.pdfs_ignorados = @ + 1,
                                            !.pdfs_procesados = @ + 1]
    /\ pc' = "salida"
    /\ UNCHANGED <<varsPuras, varsTabla, excepcion, carpeta, idx, conceptos_extraidos,
                   resultado, texto_completo, conceptos_pdf, num_pagina,
                   llamadas, conceptos_antes, csv_master, reporte_validacion,
                   log_detallado>>

\* lines 649-650: validar_entorno fails, procesar_todos_los_pdfs returns
AbortarSinEntrada ==
    /\ pc = "inicio"
    /\ ~carpeta.existe \/ carpeta.pdfs = <<>>
    /\ pc' = "salida"
    /\ UNCHANGED <<varsPuras, varsTabla, excepcion, carpeta, idx, conceptos_extraidos, resultados_validacion,
                   estadisticas, resultado, texto_completo, conceptos_pdf, num_pagina,
                   llamadas, conceptos_antes, csv_master, reporte_validacion,
                   log_detallado>>

\* lines 649-655: validar_entorno counts the PDFs
IniciarProceso ==
    /\ pc = "inicio"
    /\ carpeta.existe /\ carpeta.pdfs # <<>>
    /\ estadisticas' = [estadisticas EXCEPT !.total_pdfs = Len(carpeta.pdfs)]
    /\ pc' = "pdf"
    /\ UNCHANGED <<varsPuras, varsTabla, excepcion, carpeta, idx, conceptos_extraidos, resultados_validacion,
                   resultado, texto_completo, conceptos_pdf, num_pagina, llamadas,
                   conceptos_antes, csv_master, reporte_validacion, log_detallado>>

\* line 661 and lines 565-570: procesar_pdf is entered for the next PDF
EntrarPdf ==
    /\ pc = "pdf"
    /\ idx < Len(carpeta.pdfs)
    /\ resultado' = ResultadoValidacionPDF(NombresArchivo[idx + 1])
    /\ texto_completo' = None
    /\ conceptos_pdf' = <<>>
    /\ num_pagina' = 0
    /\ excepcion' = ""
    /\ llamadas' = <<>>
    /\ conceptos_antes' = conceptos_extraidos
    /\ pc' = "texto"
    /\ UNCHANGED <<varsPuras, varsTabla, carpeta, idx, conceptos_extraidos, resultados_validacion,
                   estadisticas, csv_master, reporte_validacion, log_detallado>>

\* lines 574-577
ExtraerTexto ==
    /\ pc = "texto"
    /\ llamadas' = Append(llamadas, Llamada("extraer_texto_completo_pdf", 0))
    /\ texto_completo' = extraer_texto_completo_pdf(Documento)
    /\ IF ~Truthy(texto_completo')
       THEN Retornar([resultado EXCEPT
                        !.mensaje = Mensaje("No se pudo extraer texto del PDF")])
       ELSE pc' = "plantilla" /\ UNCHANGED resultado
    /\ UNCHANGED <<varsPuras, varsTabla, excepcion, carpeta, idx, conceptos_extraidos, resultados_validacion,
                   estadisticas, conceptos_pdf, num_pagina, conceptos_antes, csv_master,
                   reporte_validacion, log_detallado>>

\* lines 579-585
ValidarPlantilla ==
    /\ pc = "plantilla"
    /\ llamadas' = Append(llamadas, Llamada("validar", 0))
    /\ LET v == validar(texto_completo)
       IN IF ~v.es_valido
          THEN Retornar([resultado EXCEPT
                           !.es_plantilla_remaa = v.es_valido,
                           !.mensaje = [Mensaje(v.txt) EXCEPT !.faltan = v.faltan],
                           !.tipos_error = Append(@, Err("PLANTILLA_NO_VALIDA"))])
          ELSE /\ resultado' = [resultado EXCEPT !.es_plantilla_remaa = v.es_valido]
               /\ pc' = "claves"
    /\ UNCHANGED <<varsPuras, varsTabla, excepcion, carpeta, idx, conceptos_extraidos, resultados_validacion,
                   estadisticas, texto_completo, conceptos_pdf, num_pagina,
                   conceptos_antes, csv_master, reporte_validacion, log_detallado>>

\* lines 588-592
BuscarClaves ==
    /\ pc = "claves"
    /\ llamadas' = Append(llamadas, Llamada("extraer_claves", 0))
    /\ IF extraer_claves(texto_completo) = <<>>
       THEN Retornar([resultado EXCEPT
                        !.mensaje = Mensaje("No se encontraron claves validas en el PDF"),
                        !.tipos_error = Append(@, Err("SIN_CLAVES_VALIDAS"))])
       ELSE pc' = "abrir" /\ UNCHANGED resultado
    /\ UNCHANGED <<varsPuras, varsTabla, excepcion, carpeta, idx, conceptos_extraidos, resultados_validacion,
                   estadisticas, texto_completo, conceptos_pdf, num_pagina,
                   conceptos_antes, csv_master, reporte_validacion, log_detallado>>

\* lines 595-597: the PDF is opened for the page loop
AbrirPdf ==
    /\ pc = "abrir"
    /\ llamadas' = Append(llamadas, Llamada("pdfplumber.open", 0))
    /\ conceptos_pdf' = <<>>
    /\ num_pagina' = 1
    /\ pc' = "paginas"
    /\ UNCHANGED <<varsPuras, varsTabla, excepcion, carpeta, idx, conceptos_extraidos, resultados_validacion,
                   estadisticas, resultado, texto_completo, conceptos_antes, csv_master,
                   reporte_validacion, log_detallado>>

\* the exceptions that can leave the try block: pdfplumber failing on the
\* file, and the IndexError of a row without cells
ErrorPdf == "PDFSyntaxError"
ErrorIndice == "IndexError"

\* faulty variant: a page without a table ends the page loop
MalProcesarPagina ==
    /\ pc = "paginas"
    /\ num_pagina <= Len(Documento.paginas)
    /\ LET t == extraer_tabla_con_contexto(Documento.paginas[num_pagina])
           r == procesar_tabla_pdf(t, resultado.nombre_archivo)
       IN IF t # <<>>
          THEN /\ llamadas' = llamadas \o <<Llamada("extraer_tabla_con_contexto", num_pagina),
                                            Llamada("procesar_tabla_pdf", num_pagina)>>
               /\ conceptos_pdf' = conceptos_pdf \o r.conceptos
               /\ num_pagina' = num_pagina + 1
          ELSE /\ llamadas' = Append(llamadas,
                                     Llamada("extraer_tabla_con_contexto", num_pagina))
               /\ num_pagina' = Len(Documento.paginas) + 1
               /\ UNCHANGED conceptos_pdf
    /\ UNCHANGED <<varsPuras, varsTabla, carpeta, idx, conceptos_extraidos, resultados_validacion,
                   estadisticas, resultado, texto_completo, conceptos_antes, csv_master,
                   reporte_validacion, log_detallado, excepcion, pc>>

\* lines 597-601: one page of the loop
ProcesarPagina ==
    /\ pc = "paginas"
    /\ num_pagina <= Len(Documento.paginas)
    /\ LET t == extraer_tabla_con_contexto(Documento.paginas[num_pagina])
           r == procesar_tabla_pdf(t, resultado.nombre_archivo)
       IN IF t # <<>>
          THEN /\ llamadas' = llamadas \o <<Llamada("extraer_tabla_con_contexto", num_pagina),
                                            Llamada("procesar_tabla_pdf", num_pagina)>>
               /\ IF r.error
                  THEN /\ excepcion' = ErrorIndice
                       /\ pc' = "except"
                       /\ UNCHANGED <<conceptos_pdf, num_pagina>>
                  ELSE /\ conceptos_pdf' = conceptos_pdf \o r.conceptos
                       /\ num_pagina' = num_pagina + 1
                       /\ UNCHANGED <<excepcion, pc>>
          ELSE /\ llamadas' = Append(llamadas,
                                     Llamada("extraer_tabla_con_contexto", num_pagina))
               /\ num_pagina' = num_pagina + 1
               /\ UNCHANGED <<conceptos_pdf, excepcion, pc>>
    /\ UNCHANGED <<varsPuras, varsTabla, carpeta, idx, conceptos_extraidos, resultados_validacion,
                   estadisticas, resultado, texto_completo, conceptos_antes, csv_master,
                   reporte_validacion, log_detallado>>

\* lines 596-597: pdfplumber raises while the PDF is opened or its pages
\* are read, inside the try block
FallaInesperada ==
    /\ pc \in {"abrir", "paginas"}
    /\ excepcion' = ErrorPdf
    /\ pc' = "except"
    /\ UNCHANGED <<varsPuras, varsTabla, carpeta, idx, conceptos_extraidos, resultados_validacion,
                   estadisticas, resultado, texto_completo, conceptos_pdf, num_pagina,
                   llamadas, conceptos_antes, csv_master, reporte_validacion,
                   log_detallado>>

\* faulty variant: the records collected before the failure reach the corpus
MalManejarExcepcion ==
    /\ pc = "except"
    /\ Retornar([resultado EXCEPT
                   !.mensaje = [Mensaje("Error al procesar") EXCEPT !.error = excepcion],
                   !.tipos_error = Append(@, Err("ERROR_PROCESAMIENTO"))])
    /\ conceptos_extraidos' = conceptos_extraidos \o conceptos_pdf
    /\ UNCHANGED <<varsPuras, varsTabla, carpeta, idx, resultados_validacion,
                   estadisticas, texto_completo, conceptos_pdf, num_pagina, excepcion,
                   llamadas, conceptos_antes, csv_master, reporte_validacion,
                   log_detallado>>

\* faulty variant: the failed result keeps the number of records collected
\* before the failure
MalManejarExcepcionConteo ==
    /\ pc = "except"
    /\ Retornar([resultado EXCEPT
                   !.conceptos_extraidos = Len(conceptos_pdf),
                   !.mensaje = [Mensaje("Error al procesar") EXCEPT !.error = excepcion],
                   !.tipos_error = Append(@, Err("ERROR_PROCESAMIENTO"))])
    /\ UNCHANGED <<varsPuras, varsTabla, carpeta, idx, conceptos_extraidos, resultados_validacion,
                   estadisticas, texto_completo, conceptos_pdf, num_pagina, excepcion,
                   llamadas, conceptos_antes, csv_master, reporte_validacion,
                   log_detallado>>

\* lines 636-640: the except clause
ManejarExcepcion ==
    /\ pc = "except"
    /\ Retornar([resultado EXCEPT
                   !.mensaje = [Mensaje("Error al procesar") EXCEPT !.error = excepcion],
                   !.tipos_error = Append(@, Err("ERROR_PROCESAMIENTO"))])
    /\ UNCHANGED <<varsPuras, varsTabla, carpeta, idx, conceptos_extraidos, resultados_validacion,
                   estadisticas, texto_completo, conceptos_pdf, num_pagina, excepcion,
                   llamadas, conceptos_antes, csv_master, reporte_validacion,
                   log_detallado>>

\* lines 604-607
SinConceptos ==
    /\ pc = "paginas"
    /\ num_pagina > Len(Documento.paginas)
    /\ conceptos_pdf = <<>>
    /\ Retornar([resultado EXCEPT
                   !.mensaje = Mensaje("No se pudieron extraer conceptos validos"),
                   !.tipos_error = Append(@, Err("SIN_CONCEPTOS"))])
    /\ UNCHANGED <<varsPuras, varsTabla, excepcion, carpeta, idx, conceptos_extraidos, resultados_validacion,
                   estadisticas, texto_completo, conceptos_pdf, num_pagina, llamadas,
                   conceptos_antes, csv_master, reporte_validacion, log_detallado>>

RECURSIVE Suma(_)
Suma(ns) == IF ns = <<>> THEN 0 ELSE Head(ns) + Suma(Tail(ns))

\* faulty variant: a record with a warning is counted as erroring
MalContarConceptos ==
    /\ pc = "paginas"
    /\ num_pagina > Len(Documento.paginas)
    /\ conceptos_pdf # <<>>
    /\ LET conceptos_validos ==
               Len(SelectSeq(conceptos_pdf,
                             LAMBDA c : c.errores = <<>> /\ c.advertencias = <<>>))
           errores_criticos ==
               Len(SelectSeq(conceptos_pdf,
                             LAMBDA c : c.errores # <<>> \/ c.advertencias # <<>>))
           advertencias_total ==
               Suma([k \in 1..Len(conceptos_pdf) |-> Len(conceptos_pdf[k].advertencias)])
           tipos_error_set ==
               UNION {{conceptos_pdf[k].errores[j] : j \in 1..Len(conceptos_pdf[k].errores)} :
                        k \in 1..Len(conceptos_pdf)}
       IN \E orden \in Ordenes(tipos_error_set) :
            Retornar([resultado EXCEPT
                        !.es_valido = TRUE,
                        !.conceptos_extraidos = Len(conceptos_pdf),
                        !.conceptos_validos = conceptos_validos,
                        !.errores_criticos = errores_criticos,
                        !.advertencias = advertencias_total,
                        !.tipos_error = orden,
                        !.mensaje = [Mensaje("Procesado correctamente") EXCEPT
                                       !.validos = conceptos_validos,
                                       !.total = Len(conceptos_pdf)]])
    /\ conceptos_extraidos' = conceptos_extraidos \o conceptos_pdf
    /\ UNCHANGED <<varsPuras, varsTabla, excepcion, carpeta, idx, resultados_validacion, estadisticas,
                   texto_completo, conceptos_pdf, num_pagina, llamadas, conceptos_antes,
                   csv_master, reporte_validacion, log_detallado>>

\* faulty variant: the records of the document are put in front of the
\* corpus
MalContarConceptosAlFrente ==
    /\ pc = "paginas"
    /\ num_pagina > Len(Documento.paginas)
    /\ conceptos_pdf # <<>>
    /\ LET conceptos_validos == Len(SelectSeq(conceptos_pdf, LAMBDA c : c.errores = <<>>))
           errores_criticos == Len(SelectSeq(conceptos_pdf, LAMBDA c : c.errores # <<>>))
           advertencias_total ==
               Suma([k \in 1..Len(conceptos_pdf) |-> Len(conceptos_pdf[k].advertencias)])
           tipos_error_set ==
               UNION {{conceptos_pdf[k].errores[j] : j \in 1..Len(conceptos_pdf[k].errores)} :
                        k \in 1..Len(conceptos_pdf)}
       IN \E orden \in Ordenes(tipos_error_set) :
            Retornar([resultado EXCEPT
                        !.es_valido = TRUE,
                        !.conceptos_extraidos = Len(conceptos_pdf),
                        !.conceptos_validos = conceptos_validos,
                        !.errores_criticos = errores_criticos,
                        !.advertencias = advertencias_total,
                        !.tipos_error = orden,
                        !.mensaje = [Mensaje("Procesado correctamente") EXCEPT
                                       !.validos = conceptos_validos,
                                       !.total = Len(conceptos_pdf)]])
    /\ conceptos_extraidos' = conceptos_pdf \o conceptos_extraidos
    /\ UNCHANGED <<varsPuras, varsTabla, excepcion, carpeta, idx, resultados_validacion, estadisticas,
                   texto_completo, conceptos_pdf, num_pagina, llamadas, conceptos_antes,
                   csv_master, reporte_validacion, log_detallado>>

\* faulty variant: a document without an error-free record is not valid
MalContarConceptosSinLimpios ==
    /\ pc = "paginas"
    /\ num_pagina > Len(Documento.paginas)
    /\ conceptos_pdf # <<>>
    /\ LET conceptos_validos == Len(SelectSeq(conceptos_pdf, LAMBDA c : c.errores = <<>>))
           errores_criticos == Len(SelectSeq(conceptos_pdf, LAMBDA c : c.errores # <<>>))
           advertencias_total ==
               Suma([k \in 1..Len(conceptos_pdf) |-> Len(conceptos_pdf[k].advertencias)])
           tipos_error_set ==
               UNION {{conceptos_pdf[k].errores[j] : j \in 1..Len(conceptos_pdf[k].errores)} :
                        k \in 1..Len(conceptos_pdf)}
       IN \E orden \in Ordenes(tipos_error_set) :
            Retornar([resultado EXCEPT
                        !.es_valido = (conceptos_validos > 0),
                        !.conceptos_extraidos = Len(conceptos_pdf),
                        !.conceptos_validos = conceptos_validos,
                        !.errores_criticos = errores_criticos,
                        !.advertencias = advertencias_total,
                        !.tipos_error = orden,
                        !.mensaje = [Mensaje("Procesado correctamente") EXCEPT
                                       !.validos = conceptos_validos,
                                       !.total = Len(conceptos_pdf)]])
    /\ conceptos_extraidos' = conceptos_extraidos \o conceptos_pdf
    /\ UNCHANGED <<varsPuras, varsTabla, excepcion, carpeta, idx, resultados_validacion, estadisticas,
                   texto_completo, conceptos_pdf, num_pagina, llamadas, conceptos_antes,
                   csv_master, reporte_validacion, log_detallado>>

\* lines 609-634
ContarConceptos ==
    /\ pc = "paginas"
    /\ num_pagina > Len(Documento.paginas)
    /\ conceptos_pdf # <<>>
    /\ LET conceptos_validos == Len(SelectSeq(conceptos_pdf, LAMBDA c : c.errores = <<>>))
           errores_criticos == Len(SelectSeq(conceptos_pdf, LAMBDA c : c.errores # <<>>))
           advertencias_total ==
               Suma([k \in 1..Len(conceptos_pdf) |-> Len(conceptos_pdf[k].advertencias)])
           tipos_error_set ==
               UNION {{conceptos_pdf[k].errores[j] : j \in 1..Len(conceptos_pdf[k].errores)} :
                        k \in 1..Len(conceptos_pdf)}
       IN \E orden \in Ordenes(tipos_error_set) :
            Retornar([resultado EXCEPT
                        !.es_valido = TRUE,
                        !.conceptos_extraidos = Len(conceptos_pdf),
                        !.conceptos_validos = conceptos_validos,
                        !.errores_criticos = errores_criticos,
                        !.advertencias = advertencias_total,
                        !.tipos_error = orden,
                        !.mensaje = [Mensaje("Procesado correctamente") EXCEPT
                                       !.validos = conceptos_validos,
                                       !.total = Len(conceptos_pdf)]])
    /\ conceptos_extraidos' = conceptos_extraidos \o conceptos_pdf
    /\ UNCHANGED <<varsPuras, varsTabla, excepcion, carpeta, idx, resultados_validacion, estadisticas,
                   texto_completo, conceptos_pdf, num_pagina, llamadas, conceptos_antes,
                   csv_master, reporte_validacion, log_detallado>>

\* faulty variant: the loop stops at the first result that is not valid
MalRegistrarResultado ==
    /\ pc = "retorno"
    /\ resultados_validacion' = Append(resultados_validacion, resultado)
    /\ estadisticas' =
         IF resultado.es_plantilla_remaa /\ resultado.es_valido
         THEN [estadisticas EXCEPT !.pdfs_validos = @ + 1, !.pdfs_procesados = @ + 1]
         ELSE [estadisticas EXCEPT !.pdfs_ignorados = @ + 1, !.pdfs_procesados = @ + 1]
    /\ idx' = IF resultado.es_valido THEN idx + 1 ELSE Len(carpeta.pdfs)
    /\ pc' = "pdf"
    /\ UNCHANGED <<varsPuras, varsTabla, excepcion, carpeta, conceptos_extraidos, resultado, texto_completo,
                   conceptos_pdf, num_pagina, llamadas, conceptos_antes, csv_master,
                   reporte_validacion, log_detallado>>

\* lines 661-676: the result is recorded and the PDF counted
RegistrarResultado ==
    /\ pc = "retorno"
    /\ resultados_validacion' = Append(resultados_validacion, resultado)
    /\ estadisticas' =
         IF resultado.es_plantilla_remaa /\ resultado.es_valido
         THEN [estadisticas EXCEPT !.pdfs_validos = @ + 1, !.pdfs_procesados = @ + 1]
         ELSE [estadisticas EXCEPT !.pdfs_ignorados = @ + 1, !.pdfs_procesados = @ + 1]
    /\ idx' = idx + 1
    /\ pc' = "pdf"
    /\ UNCHANGED <<varsPuras, varsTabla, excepcion, carpeta, conceptos_extraidos, resultado, texto_completo,
                   conceptos_pdf, num_pagina, llamadas, conceptos_antes, csv_master,
                   reporte_validacion, log_detallado>>

\* faulty variant: a record with a warning is not counted as valid
MalCalcularEstadisticas ==
    /\ pc = "pdf"
    /\ idx = Len(carpeta.pdfs)
    /\ LET validos == Len(SelectSeq(conceptos_extraidos,
                                    LAMBDA c : c.errores = <<>> /\ c.advertencias = <<>>))
       IN estadisticas' = [estadisticas EXCEPT
                             !.total_conceptos = Len(conceptos_extraidos),
                             !.conceptos_validos = validos,
                             !.conceptos_con_errores = Len(conceptos_extraidos) - validos]
    /\ pc' = "salida"
    /\ UNCHANGED <<varsPuras, varsTabla, excepcion, carpeta, idx, conceptos_extraidos, resultados_validacion,
                   resultado, texto_completo, conceptos_pdf, num_pagina, llamadas,
                   conceptos_antes, csv_master, reporte_validacion, log_detallado>>

\* lines 678-681: the loop is over
CalcularEstadisticas ==
    /\ pc = "pdf"
    /\ idx = Len(carpeta.pdfs)
    /\ LET validos == Len(SelectSeq(conceptos_extraidos, LAMBDA c : c.errores = <<>>))
       IN estadisticas' = [estadisticas EXCEPT
                             !.total_conceptos = Len(conceptos_extraidos),
                             !.conceptos_validos = validos,
                             !.conceptos_con_errores = Len(conceptos_extraidos) - validos]
    /\ pc' = "salida"
    /\ UNCHANGED <<varsPuras, varsTabla, excepcion, carpeta, idx, conceptos_extraidos, resultados_validacion,
                   resultado, texto_completo, conceptos_pdf, num_pagina, llamadas,
                   conceptos_antes, csv_master, reporte_validacion, log_detallado>>

\* lines 830-833: ejecutar_extraccion_completa returns without output
TerminarSinConceptos ==
    /\ pc = "salida"
    /\ conceptos_extraidos = <<>>
    /\ pc' = "fin"
    /\ UNCHANGED <<varsPuras, varsTabla, excepcion, carpeta, idx, conceptos_extraidos, resultados_validacion,
                   estadisticas, resultado, texto_completo, conceptos_pdf, num_pagina,
                   llamadas, conceptos_antes, csv_master, reporte_validacion,
                   log_detallado>>

\* line 840
GenerarCsvMaster ==
    /\ pc = "salida"
    /\ conceptos_extraidos # <<>>
    /\ csv_master' = generar_csv_master(conceptos_extraidos)
    /\ pc' = "reporte"
    /\ UNCHANGED <<varsPuras, varsTabla, excepcion, carpeta, idx, conceptos_extraidos, resultados_validacion,
                   estadisticas, resultado, texto_completo, conceptos_pdf, num_pagina,
                   llamadas, conceptos_antes, reporte_validacion, log_detallado>>

\* line 841
GenerarReporteValidacion ==
    /\ pc = "reporte"
    /\ reporte_validacion' = generar_reporte_validacion(resultados_validacion)
    /\ pc' = "log"
    /\ UNCHANGED <<varsPuras, varsTabla, excepcion, carpeta, idx, conceptos_extraidos, resultados_validacion,
                   estadisticas, resultado, texto_completo, conceptos_pdf, num_pagina,
                   llamadas, conceptos_antes, csv_master, log_detallado>>

\* line 842
GenerarLogDetallado ==
    /\ pc = "log"
    /\ log_detallado' = generar_log_detallado(estadisticas, resultados_validacion,
                                              conceptos_extraidos)
    /\ pc' = "fin"
    /\ UNCHANGED <<varsPuras, varsTabla, excepcion, carpeta, idx, conceptos_extraidos, resultados_validacion,
                   estadisticas, resultado, texto_completo, conceptos_pdf, num_pagina,
                   llamadas, conceptos_antes, csv_master, reporte_validacion>>

CarpetasPosibles ==
    {[existe |-> FALSE, pdfs |-> <<>>]}
    \cup {[existe |-> TRUE, pdfs |-> ps] : ps \in SeqHasta(DocumentosPosibles, MaxDocs)}

Init ==
    /\ tabla = <<>>
    /\ escaner = EstadoInicial
    /\ entrada = <<>>
    /\ salida = SinLlamada
    /\ carpeta \in CarpetasPosibles
    /\ InitExtractor

Next ==
    \/ AbortarSinEntrada
    \/ IniciarProceso
    \/ EntrarPdf
    \/ ExtraerTexto
    \/ ValidarPlantilla
    \/ BuscarClaves
    \/ AbrirPdf
    \/ ProcesarPagina
    \/ FallaInesperada
    \/ ManejarExcepcion
    \/ SinConceptos
    \/ ContarConceptos
    \/ RegistrarResultado
    \/ CalcularEstadisticas
    \/ TerminarSinConceptos
    \/ GenerarCsvMaster
    \/ GenerarReporteValidacion
    \/ GenerarLogDetallado

Spec == Init /\ [][Next]_vars

\* the runs over folders that may hold a document all of whose records
\* carry errors
CarpetasConErroneo ==
    {[existe |-> FALSE, pdfs |-> <<>>]}
    \cup {[existe |-> TRUE, pdfs |-> ps] : ps \in SeqHasta(DocumentosConErroneo, MaxDocs)}

InitConErroneo ==
    /\ tabla = <<>>
    /\ escaner = EstadoInicial
    /\ entrada = <<>>
    /\ salida = SinLlamada
    /\ carpeta \in CarpetasConErroneo
    /\ InitExtractor

SpecConErroneo == InitConErroneo /\ [][Next]_vars

\* ------------------------------------------------------------------------
\* The validators, one call at a time
\* ------------------------------------------------------------------------
MaxCantidad == 3
MaxPrecio == 3
MaxImporte == 320

\* quantities -1, 0, 1, ...; unit prices -0.5, 0, 0.5, 1, ...; amounts
\* -0.01, 0, 0.01, 0.02, ...: the numbers limpiar_valor_numerico reads from
\* cells with up to two decimals
CantidadesPosibles == {Normal(k, 0) : k \in -1..MaxCantidad}
PreciosPosibles == {Normal(5 * k, 1) : k \in -1..MaxPrecio}
ImportesPosibles == {Normal(k, 2) : k \in -1..MaxImporte}

\* the texts prefix + separator + digits between a left and a right margin
PrefijosPosibles ==
    {<<>>, <<"A">>, <<"A", "B">>, <<"H", "E", "R">>, <<"A", "B", "C", "D">>,
     <<"A", "B", "C", "D", "E">>, <<"a", "b">>, <<"A", " ", "B">>, <<"A", "1">>}
SeparadoresPosibles == {<<"-">>, <<>>, <<" ">>, <<"-", "-">>, <<"_">>}
SufijosPosibles ==
    {<<>>, <<"1", "2">>, <<"0", "0", "1">>, <<"1", "2", "3", "4">>, <<"1", " ", "2", "3">>,
     <<"1", "2", "a">>, <<"1", "2", "3", "\n", "4">>}
MargenesIzquierdos == {<<>>, <<" ">>, <<"\n", "\t">>, <<"x">>}
MargenesDerechos == {<<>>, <<" ">>, <<"\n">>, <<" ", "\n">>, <<"x">>}

TextosDeClave ==
    {i \o p \o s \o d \o f :
       i \in MargenesIzquierdos, p \in PrefijosPosibles, s \in SeparadoresPosibles,
       d \in SufijosPosibles, f \in MargenesDerechos}

ArgumentosClave ==
    {[op |-> "es_clave_valida", texto |-> t] : t \in TextosDeClave \cup {None, NoTexto}}

\* the words a document text is made of: the five template words, a word
\* that contains one of them and a word that lacks the last character of one
PalabrasDeTexto ==
    {PALABRAS_CLAVE_REMAA[k] : k \in 1..Len(PALABRAS_CLAVE_REMAA)}
    \cup {<<"U","N","I","D","A","D">>, <<"P",".","U">>}

MaxPalabras == 5

\* the sequences of up to MaxPalabras different words
RECURSIVE Selecciones(_, _)
Selecciones(S, n) ==
    IF n = 0 THEN {<<>>}
    ELSE LET menores == Selecciones(S, n - 1)
         IN menores \cup
            UNION {{Append(s, x) : x \in {y \in S : \A k \in 1..(n - 1) : s[k] # y}} :
                     s \in {m \in menores : Len(m) = n - 1}}

SeleccionesDePalabras == Selecciones(PalabrasDeTexto, MaxPalabras)

lower_char(c) == IF c \in Mayusculas
                 THEN SeqMinusculas[CHOOSE k \in 1..26 : SeqMayusculas[k] = c]
                 ELSE c

\* the text as written, in lower case, and with every second character in
\* lower case
FormasPosibles == {"igual", "minusculas", "alternada"}

EnForma(t, forma) ==
    IF forma = "minusculas" THEN [k \in 1..Len(t) |-> lower_char(t[k])]
    ELSE IF forma = "alternada"
         THEN [k \in 1..Len(t) |-> IF k % 2 = 0 THEN lower_char(t[k]) ELSE t[k]]
         ELSE t

\* the words are joined by a space or by nothing
UnionesPosibles == {<<" ">>, <<>>}

\* entrada is a call of validar on a text made of such words
EsArgumentoPlantilla ==
    \E s \in SeleccionesDePalabras, sep \in UnionesPosibles, forma \in FormasPosibles :
        entrada = [op |-> "validar", texto |-> EnForma(join(sep, s), forma)]

ArgumentosCoherencia ==
    {[op |-> "validar_coherencia", cantidad |-> c, precio_unitario |-> p, importe |-> i] :
       c \in CantidadesPosibles, p \in PreciosPosibles, i \in ImportesPosibles}

LlamarValidarCoherencia ==
    /\ ~salida.hecha
    /\ entrada.op = "validar_coherencia"
    /\ salida' = [hecha |-> TRUE,
                  valor |-> validar_coherencia(entrada.cantidad, entrada.precio_unitario,
                                               entrada.importe)]
    /\ UNCHANGED <<entrada, varsTabla, varsExtractor>>

LlamarEsClaveValida ==
    /\ ~salida.hecha
    /\ entrada.op = "es_clave_valida"
    /\ salida' = [hecha |-> TRUE, valor |-> es_clave_valida(entrada.texto)]
    /\ UNCHANGED <<entrada, varsTabla, varsExtractor>>

LlamarValidar ==
    /\ ~salida.hecha
    /\ entrada.op = "validar"
    /\ salida' = [hecha |-> TRUE, valor |-> validar(entrada.texto)]
    /\ UNCHANGED <<entrada, varsTabla, varsExtractor>>

InitValidadores ==
    /\ \/ entrada \in ArgumentosCoherencia \cup ArgumentosClave
       \/ EsArgumentoPlantilla
    /\ salida = SinLlamada
    /\ tabla = <<>>
    /\ escaner = EstadoInicial
    /\ carpeta = [existe |-> FALSE, pdfs |-> <<>>]
    /\ InitExtractor

NextValidadores ==
    \/ LlamarValidarCoherencia
    \/ LlamarEsClaveValida
    \/ LlamarValidar

SpecValidadores == InitValidadores /\ [][NextValidadores]_vars

\* ------------------------------------------------------------------------
\* Properties of the reconstruction and of the scanner (SpecTabla)
\* ------------------------------------------------------------------------
\* a cell that is missing, None, empty or blank
CeldaVacia(fila, c) ==
    Len(fila) <= c \/ Col(fila, c) = None \/ strip(Col(fila, c)) = <<>>

\* the trimmed text of a cell, empty when the cell is missing or None
TextoCelda(fila, c) ==
    IF Len(fila) <= c \/ Col(fila, c) = None THEN <<>> ELSE strip(Col(fila, c))

\* column 0 empty/blank and column 1 non-empty text
EsFilaContinuacion(fila) == CeldaVacia(fila, 0) /\ ~CeldaVacia(fila, 1)

\* length of the maximal run of continuation rows right after row i
LargoCorrida(t, i) ==
    CHOOSE n \in 0..(Len(t) - i - 1) :
        /\ \A k \in 1..n : EsFilaContinuacion(Fila(t, i + k))
        /\ i + n + 1 >= Len(t) \/ ~EsFilaContinuacion(Fila(t, i + n + 1))

FragmentosCorrida(t, i) ==
    [k \in 1..LargoCorrida(t, i) |-> TextoCelda(Fila(t, i + k), 1)]

\* indices of the rows with a valid key in column 0, in row order
FilasConClave(t) ==
    SelectSeq([k \in 1..Len(t) |-> k - 1],
              LAMBDA i : Len(Fila(t, i)) > 0 /\ TieneClave(Fila(t, i)))

\* the trimmed column 1 of row i, then the fragments of the run, joined by
\* one space
DescripcionLiteral(t, i) ==
    join(<<" ">>, <<TextoCelda(Fila(t, i), 1)>> \o FragmentosCorrida(t, i))

\* the same, except that a start row whose column 1 is missing, None or the
\* empty string gives no first fragment
DescripcionSinVacio(t, i) ==
    join(<<" ">>,
         (IF Len(Fila(t, i)) > 1 /\ Truthy(Col(Fila(t, i), 1))
          THEN <<TextoCelda(Fila(t, i), 1)>> ELSE <<>>)
         \o FragmentosCorrida(t, i))

\* C1 as stated: for every start row with a valid key the description is
\* the trimmed column 1 of that row followed by the trimmed column 1 of the
\* maximal run of continuation rows, joined by single spaces.
C1_DescripcionLiteral ==
    \A k \in 1..Len(escaner.conceptos) :
        escaner.conceptos[k].concepto_original
            = DescripcionLiteral(tabla, escaner.conceptos[k].numero_linea - 1)

\* C1 amended: the description is the fragments joined by single spaces,
\* where the fragments are the trimmed column 1 of the start row, unless
\* that cell is missing, None or the empty string, followed by the trimmed
\* column 1 of each row of the maximal run of continuation rows (column 0
\* missing/None/blank, column 1 not blank); the row that ends the run
\* contributes nothing.  Every record the scanner emits carries exactly
\* that description.
C1_Descripcion ==
    /\ \A k \in 1..Len(FilasConClave(tabla)) :
          reconstruir_concepto_multilinea(tabla, FilasConClave(tabla)[k]).concepto
              = DescripcionSinVacio(tabla, FilasConClave(tabla)[k])
    /\ \A k \in 1..Len(escaner.conceptos) :
          escaner.conceptos[k].concepto_original
              = DescripcionSinVacio(tabla, escaner.conceptos[k].numero_linea - 1)

\* a record whose description was built from a start row and one
\* continuation row has been emitted, and a further row ended the run
C1_Testigo ==
    \E k \in 1..Len(escaner.conceptos) :
        LET i == escaner.conceptos[k].numero_linea - 1
        IN /\ LargoCorrida(tabla, i) = 1
           /\ i + 2 < Len(tabla)
           /\ ~CeldaVacia(Fila(tabla, i), 1)
           /\ escaner.conceptos[k].concepto_original
                = TextoCelda(Fila(tabla, i), 1) \o <<" ">>
                  \o TextoCelda(Fila(tabla, i + 1), 1)

\* the records emitted are, in row order, one per row with a valid key
UnoPorFilaConClave ==
    /\ Len(escaner.conceptos) = Len(FilasConClave(tabla))
    /\ \A k \in 1..Len(escaner.conceptos) :
          /\ escaner.conceptos[k].numero_linea - 1 = FilasConClave(tabla)[k]
          /\ escaner.conceptos[k].clave
               = TextoCelda(Fila(tabla, FilasConClave(tabla)[k]), 0)

\* C2 as stated: for every table the scanner emits exactly one record per
\* row with a valid key in column 0, in row order, with that row's key.
C2_UnoPorClaveSiempre == escaner.fase = "fin" => UnoPorFilaConClave

\* C2 amended: for every table of at least two rows the scanner emits
\* exactly one record per row with a valid key in column 0, in row order,
\* with that row's trimmed key (none when no row has a key; rows before the
\* first key row are skipped); a table of fewer than two rows gives no
\* record, even when its only row has a valid key.
C2_UnoPorClave ==
    escaner.fase = "fin" =>
        IF Len(tabla) >= 2 THEN UnoPorFilaConClave ELSE escaner.conceptos = <<>>

\* a finished scan that skipped a header row and emitted two records
C2_Testigo ==
    /\ escaner.fase = "fin"
    /\ Len(tabla) >= 3
    /\ ~TieneClave(Fila(tabla, 0))
    /\ Len(escaner.conceptos) = 2

\* ------------------------------------------------------------------------
\* Properties of procesar_pdf and of the run (Spec)
\* ------------------------------------------------------------------------
\* the operations the current call of procesar_pdf has invoked
OpsLlamadas == {llamadas[k].op : k \in 1..Len(llamadas)}

\* the pages for which the current call invoked op, in call order
PaginasLlamadas(op) ==
    LET ls == SelectSeq(llamadas, LAMBDA l : l.op = op)
    IN [k \in 1..Len(ls) |-> ls[k].pagina]

TieneCodigo(errores, c) == \E k \in 1..Len(errores) : errores[k].codigo = c

\* the words of the template that occur nowhere in the upper-cased text
PalabrasAusentes(texto) ==
    LET mayusculas == upper(texto)
    IN SelectSeq(PALABRAS_CLAVE_REMAA,
                 LAMBDA w : \A p \in 1..(Len(texto) - Len(w) + 1) :
                               SubSeq(mayusculas, p, p + Len(w) - 1) # w)

\* the key pattern matches at no position of the text
SinCoincidencias(texto) == \A p \in 1..Len(texto) : CoincideEn(texto, p) = 0

\* text extraction fails, or no page of the document has text
SinTextoDisponible(doc) ==
    doc.lanza_texto \/ \A k \in 1..Len(doc.paginas) : ~Truthy(doc.paginas[k].texto)

\* the records the scanner gives for the tables of the pages, in page order
RECURSIVE ConceptosDePaginas(_, _)
ConceptosDePaginas(paginas, nombre_archivo) ==
    IF paginas = <<>> THEN <<>>
    ELSE procesar_tabla_pdf(extraer_tabla_con_contexto(Head(paginas)),
                            nombre_archivo).conceptos
         \o ConceptosDePaginas(Tail(paginas), nombre_archivo)

\* C3: when some template word is missing from the document text (the
\* Template Gate reports it invalid), procesar_pdf returns a result that is
\* not valid, is not a template, carries exactly PLANTILLA_NO_VALIDA and the
\* missing words in its message; extraer_claves is not called, the PDF is
\* not opened, no table is extracted or scanned, and the corpus is what it
\* was before the call.  No later step is ever reached with such a text.
C3_PlantillaNoValida ==
    /\ (pc = "retorno" /\ Truthy(texto_completo)
           /\ PalabrasAusentes(texto_completo) # <<>>) =>
          /\ ~resultado.es_valido
          /\ ~resultado.es_plantilla_remaa
          /\ resultado.tipos_error = <<Err("PLANTILLA_NO_VALIDA")>>
          /\ resultado.mensaje.txt = "PLANTILLA_NO_VALIDA - Faltan"
          /\ resultado.mensaje.faltan = PalabrasAusentes(texto_completo)
          /\ OpsLlamadas = {"extraer_texto_completo_pdf", "validar"}
          /\ conceptos_extraidos = conceptos_antes
    /\ pc \in {"claves", "abrir", "paginas", "except"} =>
          PalabrasAusentes(texto_completo) = <<>>

\* a document without "P.U." has been rejected by the gate after an earlier
\* document put records in the corpus
C3_Testigo ==
    /\ pc = "retorno"
    /\ Truthy(texto_completo)
    /\ PalabrasAusentes(texto_completo) = << <<"P",".","U",".">> >>
    /\ resultado.tipos_error = <<Err("PLANTILLA_NO_VALIDA")>>
    /\ conceptos_antes # <<>>

\* C4: when the text has every template word and the key pattern matches
\* nowhere in it, procesar_pdf returns a result that is not valid, is a
\* template, and carries exactly SIN_CLAVES_VALIDAS; the PDF is not opened,
\* no table is extracted or scanned and the corpus is what it was before the
\* call.  The page loop is never reached with such a text.
C4_SinClavesValidas ==
    /\ (pc = "retorno" /\ Truthy(texto_completo)
           /\ PalabrasAusentes(texto_completo) = <<>>
           /\ SinCoincidencias(texto_completo)) =>
          /\ ~resultado.es_valido
          /\ resultado.es_plantilla_remaa
          /\ resultado.tipos_error = <<Err("SIN_CLAVES_VALIDAS")>>
          /\ OpsLlamadas = {"extraer_texto_completo_pdf", "validar", "extraer_claves"}
          /\ conceptos_extraidos = conceptos_antes
    /\ pc \in {"abrir", "paginas", "except"} => ~SinCoincidencias(texto_completo)

\* a template text whose only key is written in lower case has been
\* rejected after an earlier document put records in the corpus
C4_Testigo ==
    /\ pc = "retorno"
    /\ Truthy(texto_completo)
    /\ PalabrasAusentes(texto_completo) = <<>>
    /\ SinCoincidencias(texto_completo)
    /\ ~SinCoincidencias(upper(texto_completo))
    /\ resultado.tipos_error = <<Err("SIN_CLAVES_VALIDAS")>>
    /\ conceptos_antes # <<>>

\* C5: once the PDF is opened, the pages are handed to the table extractor
\* one by one in page order; the scanner runs exactly on the pages whose
\* extraction gave a table, a page without one is passed over and the loop
\* goes on; when the loop ends without failure the collected records are the
\* scanner's records of those pages, and if there are none the result is not
\* valid, carries exactly SIN_CONCEPTOS, and the corpus is unchanged.
C5_PaginasEnOrden ==
    /\ pc = "paginas" =>
          PaginasLlamadas("extraer_tabla_con_contexto")
              = [k \in 1..(num_pagina - 1) |-> k]
    /\ (pc = "retorno" /\ "pdfplumber.open" \in OpsLlamadas /\ excepcion = "") =>
          /\ PaginasLlamadas("extraer_tabla_con_contexto")
               = [k \in 1..Len(Documento.paginas) |-> k]
          /\ PaginasLlamadas("procesar_tabla_pdf")
               = SelectSeq([k \in 1..Len(Documento.paginas) |-> k],
                           LAMBDA k : extraer_tabla_con_contexto(Documento.paginas[k]) # <<>>)
          /\ conceptos_pdf = ConceptosDePaginas(Documento.paginas, resultado.nombre_archivo)
          /\ ~TieneCodigo(resultado.tipos_error, "ERROR_PROCESAMIENTO")
          /\ conceptos_pdf = <<>> =>
                /\ ~resultado.es_valido
                /\ resultado.tipos_error = <<Err("SIN_CONCEPTOS")>>
                /\ conceptos_extraidos = conceptos_antes

\* a document of three pages, the first without a table, has been read to
\* the end without any record, after an earlier document filled the corpus
C5_Testigo ==
    /\ pc = "retorno"
    /\ excepcion = ""
    /\ Len(Documento.paginas) = 3
    /\ extraer_tabla_con_contexto(Documento.paginas[1]) = <<>>
    /\ PaginasLlamadas("extraer_tabla_con_contexto") = <<1, 2, 3>>
    /\ PaginasLlamadas("procesar_tabla_pdf") = <<2, 3>>
    /\ resultado.tipos_error = <<Err("SIN_CONCEPTOS")>>
    /\ conceptos_antes # <<>>

\* a document whose text can be read, passes the gate, holds a key and whose
\* tables give at least one record
Procesable(doc, nombre_archivo) ==
    /\ ~SinTextoDisponible(doc)
    /\ PalabrasAusentes(extraer_texto_completo_pdf(doc)) = <<>>
    /\ ~SinCoincidencias(extraer_texto_completo_pdf(doc))
    /\ ConceptosDePaginas(doc.paginas, nombre_archivo) # <<>>

\* a finished loop over three documents, the second failing in text
\* extraction, the first and third processable and not hit by a failure of
\* their own
TresConFallaDeTexto ==
    /\ pc \in {"salida", "reporte", "log", "fin"}
    /\ carpeta.existe
    /\ Len(carpeta.pdfs) = 3
    /\ carpeta.pdfs[2].lanza_texto
    /\ \A k \in {1, 3} :
          /\ Procesable(carpeta.pdfs[k], NombresArchivo[k])
          /\ Len(resultados_validacion) >= k =>
                resultados_validacion[k].mensaje.txt # "Error al procesar"

\* documents 1 and 3 have valid results and their records are the corpus
PrimeroYTerceroValidos ==
    /\ Len(resultados_validacion) = 3
    /\ \A k \in {1, 3} :
          /\ resultados_validacion[k].nombre_archivo = NombresArchivo[k]
          /\ resultados_validacion[k].es_valido
          /\ resultados_validacion[k].es_plantilla_remaa
          /\ resultados_validacion[k].conceptos_extraidos
               = Len(ConceptosDePaginas(carpeta.pdfs[k].paginas, NombresArchivo[k]))
    /\ conceptos_extraidos
         = ConceptosDePaginas(carpeta.pdfs[1].paginas, NombresArchivo[1])
           \o ConceptosDePaginas(carpeta.pdfs[3].paginas, NombresArchivo[3])
    /\ pc \in {"reporte", "log", "fin"} =>
          \A k \in 1..Len(conceptos_extraidos) :
              conceptos_extraidos[k].errores = <<>> =>
                  \E j \in 1..Len(csv_master.filas) :
                      csv_master.filas[j].clave = conceptos_extraidos[k].clave

\* C6 as stated: in a run over 3 documents where text extraction raises for
\* document 2, documents 1 and 3 get valid results and contribute their
\* records, and document 2 gets an invalid result that carries
\* ERROR_PROCESAMIENTO.
C6_ErrorProcesamientoEnTexto ==
    TresConFallaDeTexto =>
        /\ PrimeroYTerceroValidos
        /\ ~resultados_validacion[2].es_valido
        /\ TieneCodigo(resultados_validacion[2].tipos_error, "ERROR_PROCESAMIENTO")

\* C6 amended: in a run over 3 documents where text extraction raises for
\* document 2, documents 1 and 3 get valid results and contribute their
\* records, and document 2 gets an invalid result with the message "No se
\* pudo extraer texto del PDF" and no error type at all: the failure is
\* caught inside extraer_texto_completo_pdf, which returns None, so the
\* except clause of procesar_pdf, the only place that adds
\* ERROR_PROCESAMIENTO, is not reached.
C6_Aislamiento ==
    TresConFallaDeTexto =>
        /\ PrimeroYTerceroValidos
        /\ resultados_validacion[2].nombre_archivo = NombresArchivo[2]
        /\ ~resultados_validacion[2].es_valido
        /\ ~resultados_validacion[2].es_plantilla_remaa
        /\ resultados_validacion[2].mensaje = Mensaje("No se pudo extraer texto del PDF")
        /\ resultados_validacion[2].tipos_error = <<>>
        /\ resultados_validacion[2].conceptos_extraidos = 0

\* such a run has ended and written its outputs
C6_Testigo ==
    /\ TresConFallaDeTexto
    /\ pc = "fin"
    /\ csv_master.escrito
    /\ Len(resultados_validacion) = 3
    /\ resultados_validacion[1].es_valido
    /\ resultados_validacion[3].es_valido
    /\ ~resultados_validacion[2].es_valido

\* C7: when an exception is raised inside the try block of procesar_pdf, the
\* call returns a result that is not valid and carries ERROR_PROCESAMIENTO
\* with the exception in its message, the corpus is exactly what it was
\* before the call even when earlier pages already gave records, and the
\* run goes on: every document handled so far has its result, under its own
\* name, and a finished loop has one result per document.
C7_FallaInesperada ==
    /\ pc = "except" => excepcion # "" /\ conceptos_extraidos = conceptos_antes
    /\ (pc = "retorno" /\ excepcion # "") =>
          /\ ~resultado.es_valido
          /\ TieneCodigo(resultado.tipos_error, "ERROR_PROCESAMIENTO")
          /\ resultado.mensaje = [Mensaje("Error al procesar") EXCEPT !.error = excepcion]
          /\ resultado.conceptos_extraidos = 0
          /\ conceptos_extraidos = conceptos_antes
    /\ pc \in {"pdf", "texto", "plantilla", "claves", "abrir", "paginas", "except",
               "retorno"} =>
          /\ Len(resultados_validacion) = idx
          /\ idx <= Len(carpeta.pdfs)
    /\ (pc \in {"salida", "reporte", "log", "fin"} /\ carpeta.existe) =>
          Len(resultados_validacion) = Len(carpeta.pdfs)
    /\ \A k \in 1..Len(resultados_validacion) :
          resultados_validacion[k].nombre_archivo = NombresArchivo[k]

\* the first of several documents failed on its second page, after its
\* first page had given records, and the run has ended with a valid result
\* for a later document
C7_Testigo ==
    /\ pc = "fin"
    /\ Len(resultados_validacion) >= 2
    /\ TieneCodigo(resultados_validacion[1].tipos_error, "ERROR_PROCESAMIENTO")
    /\ Len(carpeta.pdfs[1].paginas) = 2
    /\ procesar_tabla_pdf(extraer_tabla_con_contexto(carpeta.pdfs[1].paginas[1]),
                          NombresArchivo[1]).conceptos # <<>>
    /\ resultados_validacion[2].es_valido
    /\ \A k \in 1..Len(conceptos_extraidos) :
          conceptos_extraidos[k].origen_pdf # NombresArchivo[1]

\* C8: when text extraction fails or no page has text, procesar_pdf returns
\* a result that is not valid, with the message "No se pudo extraer texto
\* del PDF" and no error type; the only call made is the text extraction
\* (no Template Gate, no extraer_claves, no table extraction) and the corpus
\* is unchanged.  No later step is ever reached for such a document.
C8_SinTexto ==
    /\ (pc = "retorno" /\ SinTextoDisponible(Documento)) =>
          /\ ~resultado.es_valido
          /\ ~resultado.es_plantilla_remaa
          /\ resultado.mensaje = Mensaje("No se pudo extraer texto del PDF")
          /\ resultado.tipos_error = <<>>
          /\ llamadas = <<Llamada("extraer_texto_completo_pdf", 0)>>
          /\ conceptos_extraidos = conceptos_antes
    /\ pc \in {"plantilla", "claves", "abrir", "paginas", "except"} =>
          ~SinTextoDisponible(Documento)

\* a document whose text extraction raises although its page has the
\* template text has been turned away, with records already in the corpus
C8_Testigo ==
    /\ pc = "retorno"
    /\ Documento.lanza_texto
    /\ \E k \in 1..Len(Documento.paginas) : Truthy(Documento.paginas[k].texto)
    /\ resultado.mensaje.txt = "No se pudo extraer texto del PDF"
    /\ conceptos_antes # <<>>

\* the records of the corpus with the given key
ConClave(clave) ==
    SelectSeq(conceptos_extraidos, LAMBDA c : c.clave = clave)

\* C9: every row of the clean export is the projection of a corpus record
\* without errors, and a key whose records all have errors has no row; the
\* records with errors are still in the corpus after the export (the corpus
\* has the size and the number of erroring records counted before it) and
\* each of them is listed in the errors/warnings section of the log.
C9_SinErroresEnCsv ==
    /\ ~csv_master.escrito => csv_master.filas = <<>>
    /\ csv_master.escrito =>
          /\ \A k \in 1..Len(csv_master.filas) :
                \E j \in 1..Len(conceptos_extraidos) :
                    /\ conceptos_extraidos[j].errores = <<>>
                    /\ csv_master.filas[k] = FilaCsv(conceptos_extraidos[j])
          /\ \A j \in 1..Len(conceptos_extraidos) :
                (\A i \in 1..Len(conceptos_extraidos) :
                     conceptos_extraidos[i].clave = conceptos_extraidos[j].clave
                         => conceptos_extraidos[i].errores # <<>>)
                => \A k \in 1..Len(csv_master.filas) :
                       csv_master.filas[k].clave # conceptos_extraidos[j].clave
    /\ pc \in {"reporte", "log", "fin"} =>
          /\ Len(conceptos_extraidos) = estadisticas.total_conceptos
          /\ Len(SelectSeq(conceptos_extraidos, LAMBDA c : c.errores # <<>>))
               = estadisticas.conceptos_con_errores
    /\ log_detallado.escrito =>
          \A j \in 1..Len(conceptos_extraidos) :
              conceptos_extraidos[j].errores # <<>> =>
                  \E k \in 1..Len(log_detallado.conceptos) :
                      log_detallado.conceptos[k] = conceptos_extraidos[j]

\* the outputs are written for a corpus that holds a record with errors
\* whose key another record carries too
C9_Testigo ==
    /\ pc = "fin"
    /\ csv_master.escrito
    /\ log_detallado.escrito
    /\ \E j \in 1..Len(conceptos_extraidos) :
          /\ conceptos_extraidos[j].errores # <<>>
          /\ ConClave(conceptos_extraidos[j].clave) # <<conceptos_extraidos[j]>>

\* the corpus records without errors, in corpus order
SinErrores == SelectSeq(conceptos_extraidos, LAMBDA c : c.errores = <<>>)

\* C10: the clean export has at most one row per key, and a row for every
\* key of an error-free record; each row is the projection (key,
\* description, unit, unit price, source document) of the first error-free
\* record of the corpus with that key; the number of dropped duplicates
\* reported is the number of error-free records minus the number of rows.
C10_PrimeroPorClave ==
    csv_master.escrito =>
        /\ \A k, j \in 1..Len(csv_master.filas) :
              csv_master.filas[k].clave = csv_master.filas[j].clave => k = j
        /\ \A j \in 1..Len(SinErrores) :
              \E k \in 1..Len(csv_master.filas) :
                  csv_master.filas[k].clave = SinErrores[j].clave
        /\ \A k \in 1..Len(csv_master.filas) :
              \E j \in 1..Len(SinErrores) :
                  /\ csv_master.filas[k] = FilaCsv(SinErrores[j])
                  /\ \A i \in 1..(j - 1) : SinErrores[i].clave # SinErrores[j].clave
        /\ csv_master.duplicados = Len(SinErrores) - Len(csv_master.filas)

\* the same clean key was fed twice, from two documents: one row, the first
\* document's, and one dropped duplicate
C10_Testigo ==
    /\ csv_master.escrito
    /\ Len(SinErrores) = 2
    /\ SinErrores[1].clave = SinErrores[2].clave
    /\ SinErrores[1].origen_pdf # SinErrores[2].origen_pdf
    /\ csv_master.filas = <<FilaCsv(SinErrores[1])>>
    /\ csv_master.duplicados = 1

\* ------------------------------------------------------------------------
\* C11  A record whose description is empty
\* ------------------------------------------------------------------------
\* the rows of the export that come from record c
EnCsv(c) == {k \in 1..Len(csv_master.filas) : csv_master.filas[k] = FilaCsv(c)}

\* the records of the corpus whose description is empty once reconstructed
SinDescripcion ==
    {k \in 1..Len(conceptos_extraidos) :
       Len(strip(conceptos_extraidos[k].concepto_original)) = 0}

\* C11, as stated: every record of the corpus with an empty description has
\* CONCEPTO_VACIO among its errors and no row in the clean export
C11_VacioEsError ==
    \A k \in SinDescripcion :
        /\ TieneCodigo(conceptos_extraidos[k].errores, "CONCEPTO_VACIO")
        /\ csv_master.escrito => EnCsv(conceptos_extraidos[k]) = {}

\* ------------------------------------------------------------------------
\* C12  A record whose description is short
\* ------------------------------------------------------------------------
\* the key, the unit and the numbers of record c pass their validators
SinOtroDefecto(c) ==
    /\ validar_clave(c.clave).ok
    /\ validar_unidad(c.unidad).ok
    /\ validar_coherencia(c.cantidad, c.precio_unitario, c.importe).ok

\* the records of the corpus with a non-empty description of fewer than
\* LONGITUD_MINIMA_CONCEPTO characters
Cortos ==
    {k \in 1..Len(conceptos_extraidos) :
       Len(strip(conceptos_extraidos[k].concepto_original)) \in
           1..(LONGITUD_MINIMA_CONCEPTO - 1)}

\* those of them with no other defect
SoloCortos == {k \in Cortos : SinOtroDefecto(conceptos_extraidos[k])}

\* no error-free record before position k of the corpus has the key of the
\* k-th record
PrimeroDeSuClave(k) ==
    \A j \in 1..(k - 1) :
        conceptos_extraidos[j].errores = <<>>
            => conceptos_extraidos[j].clave # conceptos_extraidos[k].clave

\* record c, the k-th of the corpus, has no error and the single warning
\* CONCEPTO_DEMASIADO_CORTO; the export, once written, has a row with its
\* key, its own row when no earlier clean record has that key; the log, once
\* written, lists it with that warning
AdvertidoYExportado(k, c) ==
    /\ c.errores = <<>>
    /\ c.advertencias = <<Err("CONCEPTO_DEMASIADO_CORTO")>>
    /\ pc \in {"reporte", "log", "fin"} =>
         /\ csv_master.escrito
         /\ \E j \in 1..Len(csv_master.filas) : csv_master.filas[j].clave = c.clave
         /\ PrimeroDeSuClave(k) => EnCsv(c) # {}
    /\ log_detallado.escrito =>
         \E j \in 1..Len(log_detallado.conceptos) : log_detallado.conceptos[j] = c

\* C12: every record with a short non-empty description is warned, counted
\* without errors, exported and logged, unless it has another defect
C12_CortoSoloAdvierte ==
    \A k \in Cortos :
        \/ AdvertidoYExportado(k, conceptos_extraidos[k])
        \/ ~SinOtroDefecto(conceptos_extraidos[k])

\* a run has ended with a short-description record exported and logged
C12_Testigo ==
    /\ pc = "fin"
    /\ log_detallado.escrito
    /\ \E k \in SoloCortos : /\ PrimeroDeSuClave(k)
                             /\ EnCsv(conceptos_extraidos[k]) # {}

\* ------------------------------------------------------------------------
\* C13  The order of the checks of validar_coherencia
\* ------------------------------------------------------------------------
\* validar_coherencia has returned for the arguments in entrada
CoherenciaLlamada == salida.hecha /\ entrada.op = "validar_coherencia"

Falla(codigo) == [ok |-> FALSE, error |-> Err(codigo)]

\* C13: a call returns one verdict: CANTIDAD_INVALIDA when the quantity is
\* not positive, whatever the other two are; else PRECIO_INVALIDO when the
\* unit price is not positive; else IMPORTE_INVALIDO when the amount is not
\* positive; it returns valid or INCOHERENCIA_NUMERICA only when all three
\* are positive
C13_PrimeraCondicion ==
    CoherenciaLlamada =>
        /\ entrada.cantidad.m <= 0 => salida.valor = Falla("CANTIDAD_INVALIDA")
        /\ entrada.cantidad.m > 0 /\ entrada.precio_unitario.m <= 0
              => salida.valor = Falla("PRECIO_INVALIDO")
        /\ entrada.cantidad.m > 0 /\ entrada.precio_unitario.m > 0 /\ entrada.importe.m <= 0
              => salida.valor = Falla("IMPORTE_INVALIDO")
        /\ (salida.valor.ok \/ salida.valor.error.codigo = "INCOHERENCIA_NUMERICA")
              <=> /\ entrada.cantidad.m > 0
                  /\ entrada.precio_unitario.m > 0
                  /\ entrada.importe.m > 0

\* a call with no positive argument at all has returned
C13_Testigo ==
    /\ CoherenciaLlamada
    /\ entrada.cantidad.m <= 0
    /\ entrada.precio_unitario.m <= 0
    /\ entrada.importe.m <= 0
    /\ salida.valor = Falla("CANTIDAD_INVALIDA")

\* ------------------------------------------------------------------------
\* C14  The tolerance of validar_coherencia
\* ------------------------------------------------------------------------
\* |importe - cantidad * precio_unitario| compared with
\* TOLERANCIA_NUM / TOLERANCIA_DEN of cantidad * precio_unitario, all of it
\* in exact decimal arithmetic: -1, 0 or 1 for below, equal, above
Exceso(cantidad, precio_unitario, importe) ==
    LET real == importe.m * Pow10(cantidad.e + precio_unitario.e)
        calc == cantidad.m * precio_unitario.m * Pow10(importe.e)
    IN IF Abs(real - calc) * TOLERANCIA_DEN > calc * TOLERANCIA_NUM THEN 1
       ELSE IF Abs(real - calc) * TOLERANCIA_DEN = calc * TOLERANCIA_NUM THEN 0
       ELSE -1

TodosPositivos == /\ entrada.cantidad.m > 0
                  /\ entrada.precio_unitario.m > 0
                  /\ entrada.importe.m > 0

\* C14, as stated: with three positive arguments the call fails with
\* INCOHERENCIA_NUMERICA iff the difference between the amount and quantity
\* times unit price is strictly greater than 2% of quantity times unit
\* price, so that a difference equal to the tolerance is valid
C14_ToleranciaExacta ==
    CoherenciaLlamada /\ TodosPositivos =>
        /\ ~salida.valor.ok
              <=> Exceso(entrada.cantidad, entrada.precio_unitario, entrada.importe) = 1
        /\ ~salida.valor.ok => salida.valor.error.codigo = "INCOHERENCIA_NUMERICA"

\* ------------------------------------------------------------------------
\* C15  The counts of a DocumentResult
\* ------------------------------------------------------------------------
\* the results of procesar_pdf so far: the recorded ones and the one being
\* returned
ResultadosDevueltos ==
    {resultados_validacion[k] : k \in 1..Len(resultados_validacion)}
    \cup (IF pc = "retorno" THEN {resultado} ELSE {})

\* the records of the corpus that came from the named file
ConceptosDe(nombre_archivo) ==
    SelectSeq(conceptos_extraidos, LAMBDA c : c.origen_pdf = nombre_archivo)

\* every error of the records cs
ErroresObservados(cs) ==
    UNION {{cs[k].errores[j] : j \in 1..Len(cs[k].errores)} : k \in 1..Len(cs)}

\* the counts of result r are those of the records cs
ConteosDe(r, cs) ==
    /\ r.conceptos_extraidos = Len(cs)
    /\ r.conceptos_validos = Len(SelectSeq(cs, LAMBDA c : c.errores = <<>>))
    /\ r.errores_criticos = Len(SelectSeq(cs, LAMBDA c : c.errores # <<>>))
    /\ r.conceptos_extraidos = r.conceptos_validos + r.errores_criticos
    /\ r.advertencias = Suma([k \in 1..Len(cs) |-> Len(cs[k].advertencias)])

\* tipos_error of r lists every error of the records cs once
TiposDe(r, cs) ==
    /\ {r.tipos_error[k] : k \in 1..Len(r.tipos_error)} = ErroresObservados(cs)
    /\ \A j, k \in 1..Len(r.tipos_error) : j # k => r.tipos_error[j] # r.tipos_error[k]

\* no code is the code of two entries of tipos_error of r
CodigosUnaVez(r) ==
    \A j, k \in 1..Len(r.tipos_error) :
        j # k => r.tipos_error[j].codigo # r.tipos_error[k].codigo

\* C15, as stated: the counts of every valid result are those of the records
\* of its document, and tipos_error holds the codes observed in their
\* errors, each code once
C15_CadaCodigoUnaVez ==
    \A r \in ResultadosDevueltos :
        r.es_valido => /\ ConteosDe(r, ConceptosDe(r.nombre_archivo))
                       /\ TiposDe(r, ConceptosDe(r.nombre_archivo))
                       /\ CodigosUnaVez(r)

\* C15: the counts of every valid result are those of the records of its
\* document, and tipos_error holds the distinct errors observed in their
\* errors, each once, where an error is the code together with the values
\* INCOHERENCIA_NUMERICA carries
C15_ConteosDelDocumento ==
    \A r \in ResultadosDevueltos :
        r.es_valido => /\ ConteosDe(r, ConceptosDe(r.nombre_archivo))
                       /\ TiposDe(r, ConceptosDe(r.nombre_archivo))

\* a valid result has been recorded for a document with clean, warned and
\* erroring records, two of them incoherent with different values
C15_Testigo ==
    \E k \in 1..Len(resultados_validacion) :
        LET r == resultados_validacion[k]
        IN /\ r.es_valido
           /\ r.conceptos_validos > 0
           /\ r.errores_criticos > 1
           /\ r.advertencias > 0
           /\ ~CodigosUnaVez(r)

\* ------------------------------------------------------------------------
\* C16  The report and the log of a run
\* ------------------------------------------------------------------------
\* ejecutar_extraccion_completa has returned for a folder with documents
FinConDocumentos == pc = "fin" /\ carpeta.existe /\ carpeta.pdfs # <<>>

\* C16, as stated: a run over a folder that holds at least one document ends
\* with the validation report and the log written, each with one entry per
\* processed document, whatever was rejected
C16_ReporteYLogSiempre ==
    FinConDocumentos =>
        /\ reporte_validacion.escrito
        /\ Len(reporte_validacion.filas) = Len(carpeta.pdfs)
        /\ log_detallado.escrito
        /\ Len(log_detallado.detalle) = Len(carpeta.pdfs)

\* ------------------------------------------------------------------------
\* C17  Rows narrower than the template
\* ------------------------------------------------------------------------
\* the record read at a start row without the column c has the empty unit
\* or the number 0 that stands for an absent one
FaltantesVacios(concepto) ==
    LET fila == Fila(tabla, concepto.numero_linea - 1)
    IN /\ Len(fila) <= 2 => concepto.unidad = <<>>
       /\ Len(fila) <= 3 => concepto.cantidad = Cero
       /\ Len(fila) <= 4 => concepto.precio_unitario = Cero
       /\ Len(fila) <= 5 => concepto.importe = Cero

\* C17, as stated: whatever the widths of the rows, a row without cells
\* included, the scan does not fail, and the record of a narrow start row
\* has an empty unit and absent numbers for the columns it lacks
C17_FilasAngostasNoFallan ==
    /\ escaner.fase # "error"
    /\ \A k \in 1..Len(escaner.conceptos) : FaltantesVacios(escaner.conceptos[k])

\* ------------------------------------------------------------------------
\* C18  A missing or empty folder
\* ------------------------------------------------------------------------
SinEntrada == ~carpeta.existe \/ carpeta.pdfs = <<>>

\* C18: with a missing folder or one without PDFs the run never enters
\* procesar_pdf: no collaborator is called, the result list and the corpus
\* stay empty, every counter stays 0 and no file is written
C18_AbortaSinEntrada ==
    SinEntrada =>
        /\ pc \in {"inicio", "salida", "fin"}
        /\ llamadas = <<>>
        /\ resultado = ResultadoValidacionPDF("")
        /\ resultados_validacion = <<>>
        /\ conceptos_extraidos = <<>>
        /\ estadisticas = EstadisticasIniciales
        /\ ~csv_master.escrito /\ ~reporte_validacion.escrito /\ ~log_detallado.escrito

\* the run over a folder that exists and holds no PDF has ended
C18_Testigo == pc = "fin" /\ carpeta.existe /\ carpeta.pdfs = <<>>

\* ------------------------------------------------------------------------
\* C19  The counters of a run
\* ------------------------------------------------------------------------
\* the loop of procesar_todos_los_pdfs over a usable folder is over
FinDelRecorrido == ~SinEntrada /\ pc \in {"salida", "reporte", "log", "fin"}

\* the results of the documents that count as valid
ResultadosValidos ==
    SelectSeq(resultados_validacion, LAMBDA r : r.es_plantilla_remaa /\ r.es_valido)

\* C19: after the loop over the n documents of the folder the result list
\* holds one result per document, in the order of the files; the processed
\* documents are n, the valid ones are the results with es_plantilla_remaa
\* and es_valido, the ignored ones are the rest; the total of records is the
\* size of the corpus, the valid ones are those without errors and the
\* erroring ones are the rest
C19_ContadoresDeLaCorrida ==
    FinDelRecorrido =>
        /\ Len(resultados_validacion) = Len(carpeta.pdfs)
        /\ \A k \in 1..Len(carpeta.pdfs) :
              resultados_validacion[k].nombre_archivo = NombresArchivo[k]
        /\ estadisticas.total_pdfs = Len(carpeta.pdfs)
        /\ estadisticas.pdfs_procesados = Len(carpeta.pdfs)
        /\ estadisticas.pdfs_validos = Len(ResultadosValidos)
        /\ estadisticas.pdfs_procesados
              = estadisticas.pdfs_validos + estadisticas.pdfs_ignorados
        /\ estadisticas.total_conceptos = Len(conceptos_extraidos)
        /\ estadisticas.conceptos_validos = Len(SinErrores)
        /\ estadisticas.total_conceptos
              = estadisticas.conceptos_validos + estadisticas.conceptos_con_errores

\* a run over MaxDocs documents has ended with valid and ignored documents
\* and with clean and erroring records
C19_Testigo ==
    /\ FinDelRecorrido
    /\ pc = "fin"
    /\ Len(carpeta.pdfs) = MaxDocs
    /\ estadisticas.pdfs_validos > 0
    /\ estadisticas.pdfs_ignorados > 0
    /\ estadisticas.conceptos_validos > 0
    /\ estadisticas.conceptos_con_errores > 0

\* ------------------------------------------------------------------------
\* C20  The key pattern
\* ------------------------------------------------------------------------
\* es_clave_valida has returned for the text in entrada
ClaveLlamada == salida.hecha /\ entrada.op = "es_clave_valida"

\* t without the blanks around it
SinMargenes(t) ==
    IF \A k \in 1..Len(t) : t[k] \in Blancos THEN <<>>
    ELSE LET a == CHOOSE k \in 1..Len(t) :
                     t[k] \notin Blancos /\ \A j \in 1..(k - 1) : t[j] \in Blancos
             b == CHOOSE k \in 1..Len(t) :
                     t[k] \notin Blancos /\ \A j \in (k + 1)..Len(t) : t[j] \in Blancos
         IN SubSeq(t, a, b)

\* t is n uppercase letters, a hyphen and three digits, and nothing else
ClaveDe(t, n) ==
    /\ Len(t) = n + 4
    /\ \A k \in 1..n : t[k] \in Mayusculas
    /\ t[n + 1] = "-"
    /\ \A k \in (n + 2)..(n + 4) : t[k] \in Digitos

\* C20: es_clave_valida returns True iff its argument is a text that, once
\* the blanks around it are removed, is 2 to 4 uppercase letters, one hyphen
\* and 3 digits with nothing before or after; None, the empty text and a
\* value that is not a text give False
C20_ClaveExacta ==
    ClaveLlamada =>
        (salida.valor <=> /\ entrada.texto \notin {None, NoTexto}
                          /\ \E n \in 2..4 : ClaveDe(SinMargenes(entrada.texto), n))

\* True has been returned for a key between blanks
C20_Testigo ==
    /\ ClaveLlamada
    /\ salida.valor
    /\ entrada.texto # SinMargenes(entrada.texto)

\* ------------------------------------------------------------------------
\* C21  The template words
\* ------------------------------------------------------------------------
\* validar has returned for the text in entrada
PlantillaLlamada == salida.hecha /\ entrada.op = "validar"

\* word w is written at position p of text t, in whatever case
EscritaEn(t, w, p) ==
    /\ p + Len(w) - 1 <= Len(t)
    /\ \A k \in 1..Len(w) : t[p + k - 1] \in {w[k], lower_char(w[k])}

Ocurre(t, w) == \E p \in 1..Len(t) : EscritaEn(t, w, p)

\* C21: validar reports valid iff each of the five template words is
\* written somewhere in the text, in whatever order and case; when it
\* reports invalid, the words it names are the template words written
\* nowhere in the text, each once, and no other
C21_PalabrasPresentes ==
    PlantillaLlamada =>
        /\ salida.valor.es_valido
              <=> \A k \in 1..Len(PALABRAS_CLAVE_REMAA) :
                      Ocurre(entrada.texto, PALABRAS_CLAVE_REMAA[k])
        /\ salida.valor.es_valido => salida.valor.faltan = <<>>
        /\ ~salida.valor.es_valido =>
              /\ salida.valor.txt = "PLANTILLA_NO_VALIDA - Faltan"
              /\ salida.valor.faltan
                    = SelectSeq(PALABRAS_CLAVE_REMAA,
                                LAMBDA w : ~Ocurre(entrada.texto, w))

\* valid has been returned for a text not in upper case that begins with
\* the last template word
C21_Testigo ==
    /\ PlantillaLlamada
    /\ salida.valor.es_valido
    /\ entrada.texto # upper(entrada.texto)
    /\ EscritaEn(entrada.texto, PALABRAS_CLAVE_REMAA[5], 1)

\* ------------------------------------------------------------------------
\* C22  The rows a record consumes
\* ------------------------------------------------------------------------
\* the row at which the k-th record of the scan started
InicioDe(k) == escaner.conceptos[k].numero_linea - 1

\* the index of the last consumed row the reconstructor returns for it
UltimaDe(k) == reconstruir_concepto_multilinea(tabla, InicioDe(k)).ultima_fila

\* rows a..b are continuation rows, none with a valid key in column 0
SoloContinuaciones(a, b) ==
    \A n \in a..b : /\ EsFilaContinuacion(Fila(tabla, n))
                     /\ ~TieneClave(Fila(tabla, n))

\* no row of a..b has a valid key in column 0
SinClaveEntre(a, b) == \A n \in a..b : ~TieneClave(Fila(tabla, n))

\* C22: for a record started at row i the reconstructor returns j with
\* i <= j < number of rows, rows i+1..j are continuation rows without a
\* valid key, the scanner goes on at row j+1 (it is at j+1 or has only
\* stepped over rows without a key since), and the next record starts
\* after j, so that no row is consumed by two records
C22_FilasConsumidas ==
    \A k \in 1..Len(escaner.conceptos) :
        /\ TieneClave(Fila(tabla, InicioDe(k)))
        /\ InicioDe(k) <= UltimaDe(k)
        /\ UltimaDe(k) < Len(tabla)
        /\ SoloContinuaciones(InicioDe(k) + 1, UltimaDe(k))
        /\ k < Len(escaner.conceptos) =>
              /\ InicioDe(k + 1) > UltimaDe(k)
              /\ SinClaveEntre(UltimaDe(k) + 1, InicioDe(k + 1) - 1)
        /\ k = Len(escaner.conceptos) =>
              /\ escaner.ultima_fila = UltimaDe(k)
              /\ escaner.i > UltimaDe(k)
              /\ SinClaveEntre(UltimaDe(k) + 1, escaner.i - 1)

\* the record of row 0 has consumed rows 0-1 of a table of three rows and
\* the scan is at row 2, a key row
C22_Testigo ==
    /\ Len(tabla) = 3
    /\ escaner.fase = "conceptos"
    /\ Len(escaner.conceptos) = 1
    /\ InicioDe(1) = 0
    /\ escaner.ultima_fila = 1
    /\ escaner.i = 2
    /\ TieneClave(Fila(tabla, 2))

\* ------------------------------------------------------------------------
\* C23  A start row without a quantity, a unit price or an amount
\* ------------------------------------------------------------------------
\* column c of the row is missing, None, or a text without any digit
SinNumeroEn(fila, c) ==
    \/ Len(fila) <= c
    \/ Col(fila, c) = None
    \/ \A k \in 1..Len(Col(fila, c)) : Col(fila, c)[k] \notin Digitos

\* the start row of the record lacks one of the three numbers
FaltaAlgunNumero(concepto) ==
    \E c \in 3..5 : SinNumeroEn(Fila(tabla, concepto.numero_linea - 1), c)

\* the code of the first of quantity, unit price and amount that is not
\* positive
PrimerNoPositivo(concepto) ==
    IF concepto.cantidad.m <= 0 THEN "CANTIDAD_INVALIDA"
    ELSE IF concepto.precio_unitario.m <= 0 THEN "PRECIO_INVALIDO"
    ELSE "IMPORTE_INVALIDO"

\* the errors of the record that do not come from the unit validator
ErroresNoDeUnidad(concepto) ==
    SelectSeq(concepto.errores,
              LAMBDA e : e.codigo \notin {"UNIDAD_VACIA", "UNIDAD_DEMASIADO_LARGA",
                                          "UNIDAD_FORMATO_SOSPECHOSO"})

\* a number the start row lacks is 0 in the record
CeroDondeFalta(concepto) ==
    LET fila == Fila(tabla, concepto.numero_linea - 1)
    IN /\ SinNumeroEn(fila, 3) => concepto.cantidad = Cero
       /\ SinNumeroEn(fila, 4) => concepto.precio_unitario = Cero
       /\ SinNumeroEn(fila, 5) => concepto.importe = Cero

\* C23: a record whose start row lacks the quantity, the unit price or the
\* amount (cell missing, None or without a numeric token) has 0 in that
\* field and is not clean: besides the errors of the unit it carries one
\* error, CANTIDAD_INVALIDA, PRECIO_INVALIDO or IMPORTE_INVALIDO, the one of
\* the first of the three fields that is not positive, and no other code
C23_FaltanteEsInvalido ==
    \A k \in 1..Len(escaner.conceptos) :
        /\ CeroDondeFalta(escaner.conceptos[k])
        /\ FaltaAlgunNumero(escaner.conceptos[k]) =>
              /\ escaner.conceptos[k].errores # <<>>
              /\ ErroresNoDeUnidad(escaner.conceptos[k])
                    = <<Err(PrimerNoPositivo(escaner.conceptos[k]))>>

\* a record has been read from a row with a quantity and an amount whose
\* unit price has no digit: its only error is PRECIO_INVALIDO
C23_Testigo ==
    \E k \in 1..Len(escaner.conceptos) :
        LET fila == Fila(tabla, escaner.conceptos[k].numero_linea - 1)
        IN /\ ~SinNumeroEn(fila, 3)
           /\ SinNumeroEn(fila, 4)
           /\ Len(fila) > 4 /\ Truthy(Col(fila, 4))
           /\ ~SinNumeroEn(fila, 5)
           /\ escaner.conceptos[k].errores = <<Err("PRECIO_INVALIDO")>>

\* ------------------------------------------------------------------------
\* C24  The scan is one forward pass
\* ------------------------------------------------------------------------
\* a step of the loops of procesar_tabla_pdf that looks at row escaner.i
MiraFila == escaner.fase \in {"encabezado", "conceptos"} /\ escaner.i < Len(tabla)

\* what a step does to the scan index: it never goes back nor past the end;
\* a row without a key is left behind by one; a key row in the record loop
\* gives one record that starts at it, the reconstructor stops at a row of
\* the table at or after it, and the index goes to the row after that one;
\* a key row ends the header loop where it is
PasoAdelante ==
    /\ escaner'.i >= escaner.i
    /\ escaner'.i <= Len(tabla)
    /\ (MiraFila /\ ~TieneClave(Fila(tabla, escaner.i))) =>
          /\ escaner'.i = escaner.i + 1
          /\ escaner'.conceptos = escaner.conceptos
          /\ escaner'.fase = escaner.fase
    /\ (MiraFila /\ TieneClave(Fila(tabla, escaner.i)) /\ escaner.fase = "conceptos") =>
          /\ Len(escaner'.conceptos) = Len(escaner.conceptos) + 1
          /\ escaner'.conceptos[Len(escaner'.conceptos)].numero_linea = escaner.i + 1
          /\ escaner'.ultima_fila >= escaner.i
          /\ escaner'.ultima_fila < Len(tabla)
          /\ escaner'.i = escaner'.ultima_fila + 1
          /\ escaner'.i > escaner.i
    /\ ~(MiraFila /\ escaner.fase = "conceptos") =>
          escaner'.conceptos = escaner.conceptos
    /\ ~MiraFila => escaner'.i = escaner.i

\* the records started at different rows, in increasing row order, all of
\* them rows the index has left behind
IniciosCrecientes ==
    /\ \A j, k \in 1..Len(escaner.conceptos) :
          j < k => escaner.conceptos[j].numero_linea < escaner.conceptos[k].numero_linea
    /\ \A k \in 1..Len(escaner.conceptos) :
          escaner.conceptos[k].numero_linea - 1 < escaner.i

\* before the return the function has a step to take, one that changes its
\* position or its index
HayPaso == Terminado \/ PasoTabla(tabla, NombreTabla, escaner) # escaner

\* C24: on every table the scan ends: each step of its loops moves the
\* index forward, by one on a row without a key and to the row after the
\* last consumed one after a record, no row starts two records, the
\* reconstructor stops inside the table, no position before the return is
\* without a next step, and the function returns
C24_UnaSolaPasada ==
    /\ [][PasoAdelante]_vars
    /\ [](IniciosCrecientes)
    /\ [](HayPaso)
    /\ <>(escaner.fase = "fin")

\* a scan of a full-size table has returned after one record that consumed
\* a continuation row and a row without a key that was stepped over
C24_Testigo ==
    /\ escaner.fase = "fin"
    /\ Len(tabla) = MaxFilas
    /\ escaner.i = Len(tabla)
    /\ Len(escaner.conceptos) = 1
    /\ escaner.ultima_fila = escaner.conceptos[1].numero_linea
    /\ escaner.ultima_fila = Len(tabla) - 2

\* ------------------------------------------------------------------------
\* C25  The fields of a DocumentResult agree with each other
\* ------------------------------------------------------------------------
\* the codes procesar_pdf gives to a document as a whole
CodigosDeDocumento ==
    {"PLANTILLA_NO_VALIDA", "SIN_CLAVES_VALIDAS", "SIN_CONCEPTOS", "ERROR_PROCESAMIENTO"}

\* result r is not valid, counts nothing and names at most one code, a
\* code of the document
RechazoSinConteos(r) ==
    /\ r.conceptos_extraidos = 0
    /\ r.conceptos_validos = 0
    /\ r.errores_criticos = 0
    /\ r.advertencias = 0
    /\ Len(r.tipos_error) <= 1
    /\ \A k \in 1..Len(r.tipos_error) :
          r.tipos_error[k].codigo \in CodigosDeDocumento

\* C25: every result procesar_pdf has returned is either valid, and then it
\* is a template and counts at least one record, or not valid, and then its
\* four counts are 0 and tipos_error holds at most one code, a code of the
\* document
C25_ResultadoCoherente ==
    \A r \in ResultadosDevueltos :
        /\ r.es_valido => r.es_plantilla_remaa /\ r.conceptos_extraidos >= 1
        /\ ~r.es_valido => RechazoSinConteos(r)

\* three documents have their results: a valid one, one rejected without
\* any code and one that failed after its first page had given records
C25_Testigo ==
    /\ Len(resultados_validacion) = 3
    /\ \E k \in 1..3 : resultados_validacion[k].es_valido
    /\ \E k \in 1..3 : /\ ~resultados_validacion[k].es_valido
                         /\ resultados_validacion[k].tipos_error = <<>>
    /\ \E k \in 1..3 :
          /\ resultados_validacion[k].tipos_error = <<Err("ERROR_PROCESAMIENTO")>>
          /\ Len(carpeta.pdfs[k].paginas) = 2
          /\ procesar_tabla_pdf(extraer_tabla_con_contexto(carpeta.pdfs[k].paginas[1]),
                                NombresArchivo[k]).conceptos # <<>>

\* ------------------------------------------------------------------------
\* C26  The corpus is the concatenation of the records of the valid documents
\* ------------------------------------------------------------------------
\* the results of procesar_pdf so far, in the order of the calls: result k
\* is the result of document k of the folder
ResultadosEnOrden ==
    resultados_validacion \o (IF pc = "retorno" THEN <<resultado>> ELSE <<>>)

\* the position in the folder of the file named nombre_archivo
PosicionDe(nombre_archivo) ==
    CHOOSE k \in 1..Len(NombresArchivo) : NombresArchivo[k] = nombre_archivo

\* the length of the corpus is the sum of conceptos_extraidos over the
\* results, every record names the file of a valid result, and the records
\* stand in the order of their documents
CorpusDeValidos ==
    /\ Len(conceptos_extraidos)
         = Suma([k \in 1..Len(ResultadosEnOrden) |->
                   ResultadosEnOrden[k].conceptos_extraidos])
    /\ \A j \in 1..Len(conceptos_extraidos) :
          \E k \in 1..Len(ResultadosEnOrden) :
              /\ ResultadosEnOrden[k].es_valido
              /\ ResultadosEnOrden[k].nombre_archivo = conceptos_extraidos[j].origen_pdf
    /\ \A i, j \in 1..Len(conceptos_extraidos) :
          i < j => PosicionDe(conceptos_extraidos[i].origen_pdf)
                      <= PosicionDe(conceptos_extraidos[j].origen_pdf)

\* a step that returns a valid result for document idx + 1 puts the records
\* of that document, page by page and row by row, at the end of the corpus;
\* every other step leaves the corpus as it is
CorpusCreceConValidos ==
    IF pc # "retorno" /\ pc' = "retorno" /\ resultado'.es_valido
    THEN conceptos_extraidos'
           = conceptos_extraidos
             \o ConceptosDePaginas(carpeta.pdfs[idx + 1].paginas, NombresArchivo[idx + 1])
    ELSE conceptos_extraidos' = conceptos_extraidos

\* C26: the corpus starts empty and grows only when a document is returned
\* valid, by the records of that document in page order then row order put
\* at its end, so that it is the concatenation of the records of the valid
\* documents in the order they were processed; its length is the sum of
\* conceptos_extraidos over the results, every record names the file of a
\* valid result, and no step removes or moves a record of the corpus
C26_CorpusEsConcatenacion ==
    /\ conceptos_extraidos = <<>>
    /\ [][CorpusCreceConValidos]_vars
    /\ [](CorpusDeValidos)

\* three documents are done: the first and the third are valid, the second
\* is not, and the third gave records on its two pages
C26_Testigo ==
    /\ Len(resultados_validacion) = 3
    /\ resultados_validacion[1].es_valido
    /\ ~resultados_validacion[2].es_valido
    /\ resultados_validacion[3].es_valido
    /\ Len(carpeta.pdfs[3].paginas) = 2
    /\ \A p \in 1..2 :
          procesar_tabla_pdf(extraer_tabla_con_contexto(carpeta.pdfs[3].paginas[p]),
                             NombresArchivo[3]).conceptos # <<>>
    /\ Len(conceptos_extraidos)
         > resultados_validacion[1].conceptos_extraidos
    /\ conceptos_extraidos[1].origen_pdf = NombresArchivo[1]
    /\ conceptos_extraidos[Len(conceptos_extraidos)].origen_pdf = NombresArchivo[3]

\* ------------------------------------------------------------------------
\* C27  Duplicates are dropped after the records with errors
\* ------------------------------------------------------------------------
\* generar_csv_master has run
CsvGenerado == pc \in {"reporte", "log", "fin"}

\* the export has a row with the key of record c
ClaveExportada(c) ==
    \E j \in 1..Len(csv_master.filas) : csv_master.filas[j].clave = c.clave

\* the positions of the corpus before k that hold a record with errors and
\* the key of the k-th record
ErroneosAntes(k) ==
    {j \in 1..(k - 1) : /\ conceptos_extraidos[j].clave = conceptos_extraidos[k].clave
                        /\ conceptos_extraidos[j].errores # <<>>}

\* C27: once the export is generated, the first error-free record of every
\* key has its row in it, whatever records with errors and the same key
\* stand before it in the corpus, and a record whose key has no row in the
\* export carries errors
C27_FiltroAntesDeDuplicados ==
    CsvGenerado =>
        \A k \in 1..Len(conceptos_extraidos) :
            /\ (conceptos_extraidos[k].errores = <<>> /\ PrimeroDeSuClave(k))
                  => /\ csv_master.escrito
                     /\ EnCsv(conceptos_extraidos[k]) # {}
            /\ ~ClaveExportada(conceptos_extraidos[k])
                  => conceptos_extraidos[k].errores # <<>>

\* the run has ended and the export holds the row of an error-free record
\* that has a record with errors and the same key before it in the corpus
C27_Testigo ==
    /\ pc = "fin"
    /\ csv_master.escrito
    /\ \E k \in 1..Len(conceptos_extraidos) :
          /\ conceptos_extraidos[k].errores = <<>>
          /\ PrimeroDeSuClave(k)
          /\ ErroneosAntes(k) # {}
          /\ 1 \in ErroneosAntes(k)
          /\ EnCsv(conceptos_extraidos[k]) # {}

\* ------------------------------------------------------------------------
\* C28  A document is valid as soon as the scanner gave a record
\* ------------------------------------------------------------------------
\* the records the scanner gives for document k of the folder
EscaneadosDe(k) == ConceptosDePaginas(carpeta.pdfs[k].paginas, NombresArchivo[k])

\* the call of procesar_pdf for document k passed the gates, was not left
\* by an exception and its scanner gave some record
DioConceptos(k) ==
    /\ ~TieneCodigo(ResultadosEnOrden[k].tipos_error, "ERROR_PROCESAMIENTO")
    /\ Procesable(carpeta.pdfs[k], NombresArchivo[k])

\* every record of cs carries an error
TodosConErrores(cs) == \A j \in 1..Len(cs) : cs[j].errores # <<>>

\* result r is valid and counts the records cs, which are in the corpus;
\* when every one of them carries an error it counts no error-free record
ValidoConSusConceptos(r, cs) ==
    /\ r.es_valido
    /\ r.es_plantilla_remaa
    /\ r.conceptos_extraidos = Len(cs)
    /\ ConceptosDe(r.nombre_archivo) = cs
    /\ TodosConErrores(cs) => /\ r.conceptos_validos = 0
                              /\ r.errores_criticos = Len(cs)

\* C28: the result of a document whose scanner gave some record is valid
\* and all its records are in the corpus, whatever their errors; when every
\* one of them carries an error the result still is valid, with
\* conceptos_validos = 0; and the valid documents counted by the run are
\* the recorded results that are valid
C28_ValidoAunConErrores ==
    /\ \A k \in 1..Len(ResultadosEnOrden) :
          IF ResultadosEnOrden[k].es_valido
          THEN \E cs \in {EscaneadosDe(k)} :
                   ValidoConSusConceptos(ResultadosEnOrden[k], cs)
          ELSE ~DioConceptos(k)
    /\ estadisticas.pdfs_validos = Len(ResultadosValidos)

\* the run has ended; a document all of whose records carry errors is
\* valid, was counted among the valid ones and its records are in the corpus
C28_Testigo ==
    /\ pc = "fin"
    /\ \E k \in 1..Len(resultados_validacion) :
          /\ carpeta.pdfs[k] = DocErroneo
          /\ DioConceptos(k)
          /\ resultados_validacion[k].es_valido
          /\ resultados_validacion[k].conceptos_validos = 0
          /\ \E cs \in {EscaneadosDe(k)} : /\ TodosConErrores(cs)
                                            /\ Len(cs) = 2
                                            /\ ConceptosDe(NombresArchivo[k]) = cs
    /\ estadisticas.pdfs_validos >= 1
    /\ estadisticas.pdfs_validos = Len(ResultadosValidos)

\* ------------------------------------------------------------------------
\* C29  The key validator never fails on a scanned record
\* ------------------------------------------------------------------------
CodigosDeClave == {"CLAVE_VACIA", "CLAVE_CON_ESPACIOS", "CLAVE_FORMATO_INVALIDO"}

CodigosDeUnidad == {"UNIDAD_VACIA", "UNIDAD_DEMASIADO_LARGA", "UNIDAD_FORMATO_SOSPECHOSO"}

CodigosNumericos ==
    {"CANTIDAD_INVALIDA", "PRECIO_INVALIDO", "IMPORTE_INVALIDO", "INCOHERENCIA_NUMERICA"}

\* the positions of errores whose code is one of codigos
ErroresDe(errores, codigos) ==
    {k \in 1..Len(errores) : errores[k].codigo \in codigos}

\* the key of record c is trimmed and valid, and its validator accepts it
ClaveLimpia(c) ==
    /\ strip(c.clave) = c.clave
    /\ es_clave_valida(c.clave)
    /\ validar_clave(c.clave).ok

\* record c has no error of the key, at most one of the unit and at most
\* one of the numbers, and no other error
ErroresAcotados(c) ==
    /\ ErroresDe(c.errores, CodigosDeClave) = {}
    /\ Cardinality(ErroresDe(c.errores, CodigosDeUnidad)) <= 1
    /\ Cardinality(ErroresDe(c.errores, CodigosNumericos)) <= 1
    /\ ErroresDe(c.errores, CodigosDeUnidad \cup CodigosNumericos) = 1..Len(c.errores)
    /\ Len(c.errores) <= 2

\* C29: every record the scanner has emitted has a trimmed key that passes
\* es_clave_valida and validar_clave; none of its errors is CLAVE_VACIA,
\* CLAVE_CON_ESPACIOS or CLAVE_FORMATO_INVALIDO, and it carries at most two
\* errors, at most one of the unit and at most one of the numbers
C29_ClaveSiempreValida ==
    \A k \in 1..Len(escaner.conceptos) :
        /\ ClaveLimpia(escaner.conceptos[k])
        /\ ErroresAcotados(escaner.conceptos[k])

\* the scan has ended with a record whose key cell was padded and which
\* carries two errors, one of the unit and one of the numbers
C29_Testigo ==
    /\ escaner.fase = "fin"
    /\ \E k \in 1..Len(escaner.conceptos) :
          /\ Col(Fila(tabla, escaner.conceptos[k].numero_linea - 1), 0)
                # escaner.conceptos[k].clave
          /\ Len(escaner.conceptos[k].errores) = 2
          /\ ErroresDe(escaner.conceptos[k].errores, CodigosDeUnidad) = {1}
          /\ ErroresDe(escaner.conceptos[k].errores, CodigosNumericos) = {2}

\* ------------------------------------------------------------------------
\* C30  The rows between the end of a record and the next key row
\* ------------------------------------------------------------------------
\* the row at which the reconstruction of the k-th record stops: the first
\* row after its start that is not a continuation row, or the end of the
\* table
ParadaDe(k) == InicioDe(k) + LargoCorrida(tabla, InicioDe(k)) + 1

\* the fragments of rows i..j: column 1 of row i when it holds text, then
\* column 1 of each later row
FragmentosHasta(i, j) ==
    (IF Len(Fila(tabla, i)) > 1 /\ Truthy(Col(Fila(tabla, i), 1))
     THEN <<strip(Col(Fila(tabla, i), 1))>>
     ELSE <<>>)
    \o [m \in 1..(j - i) |-> strip(Col(Fila(tabla, i + m), 1))]

\* the k-th record is made of the rows from its start to the row before
\* its stop, and of nothing else
HechoDeSusFilas(k) ==
    escaner.conceptos[k] =
        ConceptoDeFila(tabla, InicioDe(k), NombreTabla,
                       join(<<" ">>, FragmentosHasta(InicioDe(k), ParadaDe(k) - 1)))

\* the reconstruction of the k-th record stopped at a row without a key and
\* no row from there to row n has one
SaltadaTras(k, n) ==
    /\ ParadaDe(k) < n
    /\ n < Len(tabla)
    /\ SinClaveEntre(ParadaDe(k), n)

\* row n is the start of no record and is among the rows of none
FueraDeTodo(n) ==
    \A j \in 1..Len(escaner.conceptos) :
        /\ InicioDe(j) # n
        /\ ~(InicioDe(j) <= n /\ n < ParadaDe(j))

\* C30: every record is made of the rows from its key row to the row
\* before the one its reconstruction stopped at; a row after that stop and
\* before the next key row starts no record and belongs to none, whatever
\* its shape; and the finished scan holds one record per key row
C30_FilasSaltadas ==
    /\ \A k \in 1..Len(escaner.conceptos) :
          /\ HechoDeSusFilas(k)
          /\ \A n \in 0..(Len(tabla) - 1) : SaltadaTras(k, n) => FueraDeTodo(n)
    /\ escaner.fase = "fin" /\ Len(tabla) >= 2
          => Len(escaner.conceptos) = Len(FilasConClave(tabla))

\* the scan of a table of three rows has ended with one record: row 0 has a
\* key, the reconstruction stopped at row 1, whose columns 0 and 1 are
\* blank, and row 2 has the shape of a continuation row
C30_Testigo ==
    /\ escaner.fase = "fin"
    /\ Len(tabla) = 3
    /\ Len(escaner.conceptos) = 1
    /\ InicioDe(1) = 0
    /\ ParadaDe(1) = 1
    /\ CeldaVacia(Fila(tabla, 1), 0) /\ CeldaVacia(Fila(tabla, 1), 1)
    /\ EsFilaContinuacion(Fila(tabla, 2))
    /\ SaltadaTras(1, 2)
    /\ escaner.conceptos[1].advertencias = <<>>
    /\ escaner.conceptos[1].errores = <<>>

\* the same with a stop at a row whose column 0 holds text that is no key
C30_TestigoTexto ==
    /\ escaner.fase = "fin"
    /\ Len(tabla) = 3
    /\ Len(escaner.conceptos) = 1
    /\ ParadaDe(1) = 1
    /\ ~CeldaVacia(Fila(tabla, 1), 0)
    /\ EsFilaContinuacion(Fila(tabla, 2))

====
